---- MODULE Spec2Model ----
(***************************************************************************)
(* TacoPKM CLI (src/index.js): the dependency resolver and installer, the  *)
(* access-status derivation of `info`, the network configuration           *)
(* precedence of ensureNetworkClientsInitialized, the network profile      *)
(* store, publish, the license commands, getRevertReason and the wallet    *)
(* keystore.                                                               *)
(***************************************************************************)
EXTENDS Integers, Sequences, FiniteSets, TLC

(***************************************************************************)
(* Bounds of the model.                                                    *)
(***************************************************************************)
\* number of successive `install` runs of the same request that are observed
MaxRuns == 2
\* deepest nesting of processInstallation calls that is explored
MaxDepth == 6

(***************************************************************************)
(* SemVer (the `semver` package as index.js uses it).  A version is        *)
(* <<major, minor, patch, pre>>; pre = 0 is a release, pre = k > 0 is the  *)
(* pre-release "-beta.k".                                                  *)
(***************************************************************************)
NoVersion == <<>>

V100 == <<1, 0, 0, 0>>
V110 == <<1, 1, 0, 0>>
V120 == <<1, 2, 0, 0>>
V123 == <<1, 2, 3, 0>>
V200 == <<2, 0, 0, 0>>
V200b1 == <<2, 0, 0, 1>>
V300 == <<3, 0, 0, 0>>

\* semver.prerelease(v): non-null exactly for a version with a pre-release tag
prerelease(v) == v[4] # 0

Triple(v) == <<v[1], v[2], v[3]>>

TripleLt(a, b) ==
    \/ a[1] < b[1]
    \/ a[1] = b[1] /\ a[2] < b[2]
    \/ a[1] = b[1] /\ a[2] = b[2] /\ a[3] < b[3]

\* SemVer precedence: a pre-release sorts below the release of the same triple
compare(a, b) ==
    IF TripleLt(Triple(a), Triple(b)) THEN -1
    ELSE IF TripleLt(Triple(b), Triple(a)) THEN 1
    ELSE IF a[4] = b[4] THEN 0
    ELSE IF a[4] = 0 THEN 1
    ELSE IF b[4] = 0 THEN -1
    ELSE IF a[4] < b[4] THEN -1 ELSE 1

\* Range expressions: exact, ^v, ~v, >=v and *
Exact(v) == [op |-> "eq", v |-> v]
Caret(v) == [op |-> "caret", v |-> v]
Tilde(v) == [op |-> "tilde", v |-> v]
Gte(v) == [op |-> "gte", v |-> v]
Star == [op |-> "star", v |-> NoVersion]

\* exclusive upper bound "<X.Y.Z-0" of a caret or tilde range
UpperTriple(c) ==
    IF c.op = "tilde" THEN <<c.v[1], c.v[2] + 1, 0>>
    ELSE IF c.v[1] > 0 THEN <<c.v[1] + 1, 0, 0>>
    ELSE IF c.v[2] > 0 THEN <<0, c.v[2] + 1, 0>>
    ELSE <<0, 0, c.v[3] + 1>>

InRange(v, c) ==
    CASE c.op = "star" -> TRUE
      [] c.op = "eq" -> compare(v, c.v) = 0
      [] c.op = "gte" -> compare(v, c.v) >= 0
      [] OTHER -> compare(v, c.v) >= 0 /\ TripleLt(Triple(v), UpperTriple(c))

\* semver.satisfies(version, range) without includePrerelease: a pre-release
\* version needs a comparator of the same triple that carries a pre-release
satisfies(v, c) ==
    /\ InRange(v, c)
    /\ prerelease(v) => (c.op # "star" /\ prerelease(c.v) /\ Triple(c.v) = Triple(v))

RECURSIVE MaxFrom(_, _, _)
MaxFrom(versions, c, max) ==
    IF versions = <<>> THEN max
    ELSE LET v == Head(versions)
             better == satisfies(v, c) /\ (max = NoVersion \/ compare(max, v) = -1)
         IN MaxFrom(Tail(versions), c, IF better THEN v ELSE max)

RECURSIVE FirstFrom(_, _)
FirstFrom(versions, c) ==
    IF versions = <<>> THEN NoVersion
    ELSE IF satisfies(Head(versions), c) THEN Head(versions)
    ELSE FirstFrom(Tail(versions), c)

RECURSIVE HighestOf(_, _)
HighestOf(versions, max) ==
    IF versions = <<>> THEN max
    ELSE LET v == Head(versions)
         IN HighestOf(Tail(versions), IF max = NoVersion \/ compare(max, v) = -1 THEN v ELSE max)

\* faulty variants of maxSatisfying: the first match in list order; the highest of all
maxSatisfyingFirst(versions, c) == FirstFrom(versions, c)
maxSatisfyingAny(versions, c) == HighestOf(versions, NoVersion)

\* semver.maxSatisfying(versions, range): the highest version of the list that
\* satisfies the range, NoVersion (null) when none does
maxSatisfying(versions, c) == MaxFrom(versions, c, NoVersion)

Range(s) == {s[i] : i \in 1..Len(s)}

RECURSIVE Reverse(_)
Reverse(s) == IF s = <<>> THEN <<>> ELSE Append(Reverse(Tail(s)), Head(s))

RECURSIVE SelectSeq2(_, _)
SelectSeq2(s, keep) ==
    IF s = <<>> THEN <<>>
    ELSE IF Head(s) \in keep THEN <<Head(s)>> \o SelectSeq2(Tail(s), keep)
    ELSE SelectSeq2(Tail(s), keep)

(***************************************************************************)
(* The registry contract and IPFS as the installer reads them: a family of *)
(* dependency graphs over four library names.                              *)
(***************************************************************************)
Names == {"A", "B", "C", "D"}
RegIds == {"latest", "diamond", "diamondConflict", "cycle", "greedyCycle", "preCycle"}

Dep(n, c) == [name |-> n, constraint |-> c]

\* getVersionNumbers(name) in publication order, per registry
Published(r, n) ==
    CASE r = "latest" /\ n = "A" -> <<V100, V110, V200b1>>
      [] r = "latest" /\ n = "B" -> <<V200b1>>
      [] r = "latest" /\ n = "D" -> <<V120, V123>>
      [] r \in {"diamond", "diamondConflict"} /\ n \in {"A", "B", "C"} -> <<V100>>
      [] r = "diamond" /\ n = "D" -> <<V120, V123>>
      [] r = "diamondConflict" /\ n = "D" -> <<V120, V123, V200>>
      [] r = "cycle" /\ n = "A" -> <<V100, V110>>
      [] r = "cycle" /\ n = "B" -> <<V100>>
      [] r = "greedyCycle" /\ n = "A" -> <<V100, V110>>
      [] r = "greedyCycle" /\ n \in {"B", "C"} -> <<V100>>
      [] r = "preCycle" /\ n = "A" -> <<V100>>
      [] r = "preCycle" /\ n = "B" -> <<V100, V200b1>>
      [] r = "preCycle" /\ n = "C" -> <<V110, V100>>
      [] OTHER -> <<>>

\* dependenciesArray of getVersionInfo(name, version), per registry
Dependencies(r, n, v) ==
    CASE r = "latest" /\ n = "A" /\ v = V110 -> <<Dep("D", Caret(V120))>>
      [] r = "latest" /\ n = "A" /\ v = V100 -> <<Dep("C", Star)>>
      [] r \in {"diamond", "diamondConflict"} /\ n = "A" ->
            <<Dep("B", Caret(V100)), Dep("C", Caret(V100))>>
      [] r \in {"diamond", "diamondConflict"} /\ n = "B" -> <<Dep("D", Caret(V120))>>
      [] r = "diamond" /\ n = "C" -> <<Dep("D", Caret(V120))>>
      [] r = "diamondConflict" /\ n = "C" -> <<Dep("D", Caret(V200))>>
      [] r = "cycle" /\ n = "A" -> <<Dep("B", Caret(V100))>>
      [] r = "cycle" /\ n = "B" -> <<Dep("A", Caret(V100))>>
      [] r = "greedyCycle" /\ n = "C" -> <<Dep("A", Caret(V100))>>
      [] r = "greedyCycle" /\ n = "A" -> <<Dep("B", Star)>>
      [] r = "greedyCycle" /\ n = "B" -> <<Dep("A", Tilde(V100))>>
      [] r = "preCycle" /\ n = "A" -> <<Dep("B", Caret(V200b1)), Dep("C", Gte(V100))>>
      [] r = "preCycle" /\ n = "B" -> <<Dep("A", Exact(V100))>>
      [] r = "preCycle" /\ n = "C" /\ v = V110 -> <<Dep("B", Star)>>
      [] OTHER -> <<>>

\* the version specifiers a request may carry: none (latest), or an exact version
Specifiers == {NoVersion, V100, V110, V200b1, V300}

FaultKinds == {"denied", "accessErr", "emptyHash", "blankHash", "zeroHash", "infoErr",
               "dlFail", "versionsErr"}
NoFault == [kind |-> "none", name |-> "A"]
Faults == {NoFault} \cup [kind : FaultKinds, name : Names]

Orders == {"published", "reversed"}


(***************************************************************************)
(* State.  reg, req, callerKnown and fault are the environment of an       *)
(* install: the registry, the parsed <libraryIdentifier>, whether the      *)
(* keystore yields an address, and the one thing that goes wrong.          *)
(***************************************************************************)
VARIABLES
    reg, req, callerKnown, fault,
    order,          \* order in which getVersionNumbers lists versions in this run
    run,            \* index of the current install run
    status,         \* position of the install action: access, latest, call,
                    \* installing, done, aborted
    reason,         \* why the run aborted
    abortName,      \* the library the run aborted at
    versionString,  \* the exact top-level version
    resolved,       \* resolvedPackages: name -> exact version
    stack,          \* active processInstallation calls, innermost last
    downloads,      \* downloadAndExtract calls of this run, in order
    disk,           \* directories and extracted files under the install roots
    reached,        \* processInstallation invocations of this run, in order
    prev,           \* what the previous run left: resolved, disk, status, order
    lib,            \* info: what the registry and the keystore answer
    info,           \* info: position and what was displayed
    cfg,            \* networks.json, the environment variables and the endpoints
    net,            \* ensureNetworkClientsInitialized: position and what it chose
    store,          \* config commands: networks.json and the last command run
    pub,            \* publish: position, pre-check answers, temp archive, chain
    lic,            \* purchase-license and set-license: pre-check answers, transaction
    err,            \* getRevertReason: the error object and the message returned
    wal,            \* wallet commands and the keystore file
    own             \* delete, authorize and revoke: pre-checks, prompts, transaction

cmdVars == <<store, pub, lic, err, wal, own>>
envVars == <<reg, req, callerKnown, fault, lib, info, cfg, net, store, pub, lic, err, wal,
            own>>
installVars == <<reg, req, callerKnown, fault, order, run, status, reason, abortName,
                 versionString, resolved, stack, downloads, disk, reached, prev>>
vars == <<reg, req, callerKnown, fault, order, run, status, reason, abortName,
          versionString, resolved, stack, downloads, disk, reached, prev,
          lib, info, cfg, net, store, pub, lic, err, wal, own>>

EmptyMap == [n \in {} |-> NoVersion]
EmptyDisk == [dirs |-> {}, files |-> {}]
NoPrev == [resolved |-> EmptyMap, disk |-> EmptyDisk, status |-> "none", order |-> "published"]

\* contractReadOnly.getVersionNumbers(name)
getVersionNumbers(n) ==
    IF order = "published" THEN Published(reg, n) ELSE Reverse(Published(reg, n))

\* versionData[0] of getVersionInfo(name, version): the IPFS CID, abstracted to
\* its shape ("", blank, 0x0000..., or a CID naming the archive of name@version)
ipfsHashOf(n, v) ==
    IF fault.name = n /\ fault.kind = "emptyHash" THEN <<"empty">>
    ELSE IF fault.name = n /\ fault.kind = "blankHash" THEN <<"blank">>
    ELSE IF fault.name = n /\ fault.kind = "zeroHash" THEN <<"0x0000">>
    ELSE <<"cid", n, v>>

InvalidIpfsHashEmptyOnly(h) == h[1] = "empty"
\* !ipfsHash || ipfsHash.trim() === '' || ipfsHash.startsWith('0x0000')
InvalidIpfsHash(h) == h[1] \in {"empty", "blank", "0x0000"}

hasAccessAlways(n) == TRUE
\* contractReadOnly.hasAccess(name, installerPublicAddress)
hasAccess(n) == ~(fault.kind = "denied" /\ fault.name = n)

Throws(kind, n) == fault.kind = kind /\ fault.name = n

InstallRootPerRun(r) == IF r = 1 THEN "tpkm_installed_libs" ELSE "tpkm_installed_libs.new"
\* path.join(process.cwd(), 'tpkm_installed_libs'), the same in every run
installRoot(r) == "tpkm_installed_libs"

targetPathFlat(root, n, v) == <<root, n>>
\* path.join(installRoot, targetName, versionToInstall)
targetPath(root, n, v) == <<root, n, v>>

NeverHas(res, n) == FALSE
\* resolvedMap.has(targetName)
Has(res, n) == n \in DOMAIN res

ConflictIgnored(installed, c) == TRUE
\* semver.satisfies(installedVersion, targetConstraint) of the conflict check
StillSatisfies(installed, c) == satisfies(installed, c)

SetNothing(res, n, v) == res
\* resolvedMap.set(targetName, versionToInstall)
Set(res, n, v) == [m \in DOMAIN res \cup {n} |-> IF m = n THEN v ELSE res[m]]

\* resolvedMap.delete(targetName)
Delete(res, n) == [m \in DOMAIN res \ {n} |-> res[m]]

StableAll(versions) == versions
\* availableVersions.filter(v => semver.prerelease(v) === null)
stableVersions(versions) ==
    SelectSeq2(versions, {v \in Range(versions) : ~prerelease(v)})

LatestOfAll(versions) == HighestOf(versions, NoVersion)
\* semver.maxSatisfying(stableVersions, '*') of the "latest" resolution
LatestStable(versions) == maxSatisfying(stableVersions(versions), Star)

Frame(n, c) == [name |-> n, constraint |-> c, ver |-> NoVersion, pc |-> "versions", todo |-> <<>>]
Top == stack[Len(stack)]
SetTop(f) == [stack EXCEPT ![Len(stack)] = f]
Pop == SubSeq(stack, 1, Len(stack) - 1)
Reach(n, c, fine) == Append(reached, [name |-> n, constraint |-> c, ok |-> fine])

\* the throw that unwinds every processInstallation frame to the catch of the
\* install action ("Installation failed:")
Abort(why, n) ==
    /\ status' = "aborted"
    /\ reason' = why
    /\ abortName' = n
    /\ stack' = <<>>

\* the other commands are not running
InfoIdle ==
    /\ lib = [known |-> FALSE, isOwner |-> FALSE, userHasLicense |-> FALSE,
              hasAccess |-> FALSE, isPrivate |-> FALSE, licenseRequired |-> FALSE,
              statusQueryFails |-> FALSE, querySpecificVersion |-> FALSE]
    /\ info = [pc |-> "idle", shown |-> {}, currentUserHasAccess |-> FALSE,
               versionFetched |-> FALSE]

NetIdle ==
    /\ cfg = [activeNetwork |-> "null", rpcUrl |-> "", contractAddress |-> "",
              RPC_URL |-> "", CONTRACT_ADDRESS |-> "", IPFS_API_URL |-> "",
              rpcUp |-> FALSE, ipfsUp |-> FALSE]
    /\ net = [pc |-> "idle", rpcToUse |-> "", contractAddrToUse |-> "", source |-> "",
              warned |-> FALSE, ipfsApiUrlToUse |-> "", exit |-> "none"]

ConfigIdle == store = [pc |-> "idle"]
PublishIdle == pub = [pc |-> "idle"]
LicenseIdle == lic = [pc |-> "idle"]
ErrIdle == err = [pc |-> "idle"]
WalletIdle == wal = [pc |-> "idle"]
OwnerIdle == own = [pc |-> "idle"]

CmdIdle == ConfigIdle /\ PublishIdle /\ LicenseIdle /\ ErrIdle /\ WalletIdle /\ OwnerIdle

Init ==
    /\ InfoIdle
    /\ NetIdle
    /\ CmdIdle
    /\ reg \in RegIds
    /\ req \in [name : Names, spec : Specifiers]
    /\ callerKnown \in BOOLEAN
    /\ fault \in Faults
    /\ order = "published"
    /\ run = 1
    /\ status = "access"
    /\ reason = "none"
    /\ abortName = "none"
    /\ versionString = req.spec
    /\ resolved = EmptyMap
    /\ stack = <<>>
    /\ downloads = <<>>
    /\ disk = EmptyDisk
    /\ reached = <<>>
    /\ prev = NoPrev

\* install action, top-level access check (hasAccess on the requested library)
InstallAccessCheck ==
    /\ status = "access"
    /\ IF ~callerKnown
         THEN /\ status' = IF req.spec = NoVersion THEN "latest" ELSE "call"
              /\ UNCHANGED <<reason, abortName, stack>>
       ELSE IF Throws("accessErr", req.name) THEN Abort("RPC_ERROR", req.name)
       ELSE IF ~hasAccess(req.name) THEN Abort("ACCESS_DENIED", req.name)
       ELSE /\ status' = IF req.spec = NoVersion THEN "latest" ELSE "call"
            /\ UNCHANGED <<reason, abortName, stack>>
    /\ UNCHANGED <<envVars, order, run, versionString, resolved, downloads, disk, reached, prev>>

\* install action, "latest stable" resolution when no version was given
InstallResolveLatest ==
    /\ status = "latest"
    /\ LET availableVersions == getVersionNumbers(req.name)
           latest == LatestStable(availableVersions)
       IN IF Throws("versionsErr", req.name)
            THEN Abort("RPC_ERROR", req.name) /\ UNCHANGED versionString
          ELSE IF availableVersions = <<>>
            THEN Abort("NOT_FOUND", req.name) /\ UNCHANGED versionString
          ELSE IF stableVersions(availableVersions) = <<>> \/ latest = NoVersion
            THEN Abort("NO_STABLE", req.name) /\ UNCHANGED versionString
          ELSE /\ versionString' = latest
               /\ status' = "call"
               /\ UNCHANGED <<reason, abortName, stack>>
    /\ UNCHANGED <<envVars, order, run, resolved, downloads, disk, reached, prev>>

\* a resolver that resolves the name anew when the pinned version does not
\* satisfy the constraint
CallRepins(n, c, base) ==
    IF Has(resolved, n) /\ StillSatisfies(resolved[n], c)
      THEN /\ stack' = base
           /\ status' = "installing"
           /\ reached' = Reach(n, c, TRUE)
           /\ UNCHANGED <<reason, abortName>>
    ELSE /\ Len(base) < MaxDepth
         /\ stack' = Append(base, Frame(n, c))
         /\ status' = "installing"
         /\ reached' = Reach(n, c, TRUE)
         /\ UNCHANGED <<reason, abortName>>

\* entry of processInstallation(n, c, ...) on top of the frames `base`: the
\* already-resolved check, run synchronously by the caller
Call(n, c, base) ==
    IF Has(resolved, n)
      THEN IF StillSatisfies(resolved[n], c)
             THEN /\ stack' = base
                  /\ status' = "installing"
                  /\ reached' = Reach(n, c, TRUE)
                  /\ UNCHANGED <<reason, abortName>>
           ELSE /\ Abort("VERSION_CONFLICT", n)
                /\ reached' = Reach(n, c, FALSE)
    ELSE /\ Len(base) < MaxDepth
         /\ stack' = Append(base, Frame(n, c))
         /\ status' = "installing"
         /\ reached' = Reach(n, c, TRUE)
         /\ UNCHANGED <<reason, abortName>>

\* install action: processInstallation(libraryName, versionString, new Map(), ...)
InstallCall ==
    /\ status = "call"
    /\ Call(req.name, Exact(versionString), <<>>)
    /\ UNCHANGED <<envVars, order, run, versionString, resolved, downloads, disk, prev>>

\* processInstallation steps 2 and 3: getVersionNumbers, then maxSatisfying
FetchVersions ==
    /\ status = "installing" /\ stack # <<>> /\ Top.pc = "versions"
    /\ LET availableVersions == getVersionNumbers(Top.name)
           versionToInstall == maxSatisfying(availableVersions, Top.constraint)
       IN IF Throws("versionsErr", Top.name)
            THEN Abort("RPC_ERROR", Top.name) /\ UNCHANGED resolved
          ELSE IF availableVersions = <<>>
            THEN Abort("NOT_FOUND", Top.name) /\ UNCHANGED resolved
          ELSE IF versionToInstall = NoVersion
            THEN Abort("NO_MATCH", Top.name) /\ UNCHANGED resolved
          ELSE IF callerKnown
            THEN /\ stack' = SetTop([Top EXCEPT !.ver = versionToInstall, !.pc = "access"])
                 /\ UNCHANGED <<status, reason, abortName, resolved>>
          ELSE /\ resolved' = Set(resolved, Top.name, versionToInstall)
               /\ stack' = SetTop([Top EXCEPT !.ver = versionToInstall, !.pc = "info"])
               /\ UNCHANGED <<status, reason, abortName>>
    /\ UNCHANGED <<envVars, order, run, versionString, downloads, disk, reached, prev>>

\* processInstallation step 3a and 4: hasAccess on the dependency, then mark it
CheckAccess ==
    /\ status = "installing" /\ stack # <<>> /\ Top.pc = "access"
    /\ IF Throws("accessErr", Top.name)
         THEN Abort("RPC_ERROR", Top.name) /\ UNCHANGED resolved
       ELSE IF ~hasAccess(Top.name)
         THEN Abort("ACCESS_DENIED", Top.name) /\ UNCHANGED resolved
       ELSE /\ resolved' = Set(resolved, Top.name, Top.ver)
            /\ stack' = SetTop([Top EXCEPT !.pc = "info"])
            /\ UNCHANGED <<status, reason, abortName>>
    /\ UNCHANGED <<envVars, order, run, versionString, downloads, disk, reached, prev>>

\* processInstallation step 5: getVersionInfo and the IPFS hash validation
FetchVersionInfo ==
    /\ status = "installing" /\ stack # <<>> /\ Top.pc = "info"
    /\ LET ipfsHash == ipfsHashOf(Top.name, Top.ver)
           subDependencies == Dependencies(reg, Top.name, Top.ver)
       IN IF Throws("infoErr", Top.name)
            THEN /\ resolved' = Delete(resolved, Top.name)
                 /\ Abort("RPC_ERROR", Top.name)
          ELSE IF InvalidIpfsHash(ipfsHash)
            THEN /\ resolved' = Delete(resolved, Top.name)
                 /\ Abort("BAD_RECORD", Top.name)
          ELSE /\ stack' = SetTop([Top EXCEPT !.pc = "download", !.todo = subDependencies])
               /\ UNCHANGED <<status, reason, abortName, resolved>>
    /\ UNCHANGED <<envVars, order, run, versionString, downloads, disk, reached, prev>>

\* processInstallation steps 6 and 7: downloadAndExtract into the target path
Download ==
    /\ status = "installing" /\ stack # <<>> /\ Top.pc = "download"
    /\ LET path == targetPath(installRoot(run), Top.name, Top.ver)
           ipfsHash == ipfsHashOf(Top.name, Top.ver)
           failed == Throws("dlFail", Top.name)
       IN /\ downloads' = Append(downloads,
                [name |-> Top.name, version |-> Top.ver, path |-> path, ok |-> ~failed])
          /\ IF failed
               THEN /\ disk' = [disk EXCEPT !.dirs = @ \cup {path}]
                    /\ Abort("DOWNLOAD_FAILED", Top.name)
             ELSE /\ disk' = [dirs |-> disk.dirs \cup {path},
                              files |-> disk.files \cup {<<path, ipfsHash>>}]
                  /\ stack' = SetTop([Top EXCEPT !.pc = "deps"])
                  /\ UNCHANGED <<status, reason, abortName>>
    /\ UNCHANGED <<envVars, order, run, versionString, resolved, reached, prev>>

\* processInstallation step 8: the next sub-dependency of the loop
NextDependency ==
    /\ status = "installing" /\ stack # <<>> /\ Top.pc = "deps" /\ Top.todo # <<>>
    /\ LET subDep == Head(Top.todo)
       IN Call(subDep.name, subDep.constraint, SetTop([Top EXCEPT !.todo = Tail(@)]))
    /\ UNCHANGED <<envVars, order, run, versionString, resolved, downloads, disk, prev>>

\* processInstallation returns: every sub-dependency was processed
Return ==
    /\ status = "installing" /\ stack # <<>> /\ Top.pc = "deps" /\ Top.todo = <<>>
    /\ stack' = Pop
    /\ UNCHANGED <<envVars, order, run, status, reason, abortName, versionString,
                   resolved, downloads, disk, reached, prev>>

\* install action: "Installation finished successfully!"
InstallFinish ==
    /\ status = "installing" /\ stack = <<>>
    /\ status' = "done"
    /\ UNCHANGED <<envVars, order, run, reason, abortName, versionString,
                   resolved, stack, downloads, disk, reached, prev>>

Terminated == status \in {"done", "aborted"}

\* the same `install` command issued again: a new Map, the same working directory
InstallAgain ==
    /\ Terminated /\ run < MaxRuns
    /\ prev' = [resolved |-> resolved, disk |-> disk, status |-> status, order |-> order]
    /\ order' \in Orders
    /\ run' = run + 1
    /\ status' = "access"
    /\ reason' = "none"
    /\ abortName' = "none"
    /\ versionString' = req.spec
    /\ resolved' = EmptyMap
    /\ stack' = <<>>
    /\ downloads' = <<>>
    /\ reached' = <<>>
    /\ UNCHANGED <<envVars, disk>>

InstallIdle ==
    /\ reg = "latest"
    /\ req = [name |-> "A", spec |-> NoVersion]
    /\ callerKnown = FALSE
    /\ fault = NoFault
    /\ order = "published"
    /\ run = 1
    /\ status = "idle"
    /\ reason = "none"
    /\ abortName = "none"
    /\ versionString = NoVersion
    /\ resolved = EmptyMap
    /\ stack = <<>>
    /\ downloads = <<>>
    /\ disk = EmptyDisk
    /\ reached = <<>>
    /\ prev = NoPrev

Next ==
    \/ InstallAccessCheck
    \/ InstallResolveLatest
    \/ InstallCall
    \/ FetchVersions
    \/ CheckAccess
    \/ FetchVersionInfo
    \/ Download
    \/ NextDependency
    \/ Return
    \/ InstallFinish
    \/ InstallAgain

Spec == Init /\ [][Next]_vars


(***************************************************************************)
(* info <libraryIdentifier>: the access status of the caller and the gate  *)
(* on the version details.                                                 *)
(***************************************************************************)
SevenStates == {"OWNER", "PUBLIC_OPEN", "PUBLIC_LICENSED_OWNED", "PUBLIC_LICENSED_UNOWNED",
                "PRIVATE_AUTHORIZED", "PRIVATE_UNAUTHORIZED", "NO_WALLET"}

\* a faulty variant of the derivation: the `else` before `if (currentUserHasAccess)` is lost
AccessStatusNoElse(l) ==
    IF ~l.known THEN {"NO_WALLET"}
    ELSE (IF l.userHasLicense THEN {"PUBLIC_LICENSED_OWNED"} ELSE {})
         \cup (IF l.hasAccess
                 THEN (IF l.isOwner THEN {"OWNER"}
                       ELSE IF l.isPrivate THEN {"PRIVATE_AUTHORIZED"}
                       ELSE {"PUBLIC_OPEN"})
               ELSE IF l.isPrivate \/ l.licenseRequired
                 THEN (IF l.licenseRequired /\ ~l.isPrivate THEN {"PUBLIC_LICENSED_UNOWNED"}
                       ELSE IF l.isPrivate THEN {"PRIVATE_UNAUTHORIZED"}
                       ELSE {})
               ELSE {})

\* the access states the status block of `info` reports, by its messages:
\* "OWN a license", "You are the OWNER", "DIRECT AUTHORIZED access", "general
\* access", "A license purchase is required", "requires direct authorization
\* from the owner", "No local wallet configured"
AccessStatus(l) ==
    IF ~l.known THEN {"NO_WALLET"}
    ELSE IF l.userHasLicense THEN {"PUBLIC_LICENSED_OWNED"}
    ELSE IF l.hasAccess
      THEN (IF l.isOwner THEN {"OWNER"}
            ELSE IF l.isPrivate THEN {"PRIVATE_AUTHORIZED"}
            ELSE {"PUBLIC_OPEN"})
    ELSE IF l.isPrivate \/ l.licenseRequired
      THEN (IF l.licenseRequired /\ ~l.isPrivate THEN {"PUBLIC_LICENSED_UNOWNED"}
            ELSE IF l.isPrivate THEN {"PRIVATE_UNAUTHORIZED"}
            ELSE {})
    ELSE {}

\* without a wallet every library counts as accessible
NoWalletAccessAlways(l) == TRUE

\* currentUserHasAccess = !isPrivate && !licenseRequired, for a caller without
\* a wallet
NoWalletAccess(l) == ~l.isPrivate /\ ~l.licenseRequired

InfoInit ==
    /\ InstallIdle
    /\ NetIdle
    /\ CmdIdle
    /\ lib \in [known : BOOLEAN, isOwner : BOOLEAN, userHasLicense : BOOLEAN,
                hasAccess : BOOLEAN, isPrivate : BOOLEAN, licenseRequired : BOOLEAN,
                statusQueryFails : BOOLEAN, querySpecificVersion : BOOLEAN]
    /\ info = [pc |-> "status", shown |-> {}, currentUserHasAccess |-> FALSE,
               versionFetched |-> FALSE]

\* info action: "Check and display user's current access/license status"
InfoAccessStatus ==
    /\ info.pc = "status"
    /\ IF lib.known /\ lib.statusQueryFails
         THEN info' = [info EXCEPT !.pc = "details"]
       ELSE info' = [info EXCEPT
                !.pc = "details",
                !.shown = AccessStatus(lib),
                !.currentUserHasAccess =
                    IF lib.known THEN lib.hasAccess ELSE NoWalletAccess(lib)]
    /\ UNCHANGED <<cmdVars, installVars, lib, cfg, net>>

\* info action: the details of a specifically requested version
InfoVersionDetails ==
    /\ info.pc = "details"
    /\ info' = [info EXCEPT
            !.pc = "end",
            !.versionFetched = lib.querySpecificVersion /\ info.currentUserHasAccess]
    /\ UNCHANGED <<cmdVars, installVars, lib, cfg, net>>

InfoNext ==
    \/ InfoAccessStatus
    \/ InfoVersionDetails

InfoSpec == InfoInit /\ [][InfoNext]_vars

(***************************************************************************)
(* ensureNetworkClientsInitialized: which RPC URL, contract address and    *)
(* IPFS API URL a command runs with.                                       *)
(***************************************************************************)
DEFAULT_IPFS_API_URL == "http://127.0.0.1:5001/api/v0"

\* ethers.isAddress: a well-formed 20-byte address
isAddress(a) ==
    a \in {"0xPROFILE", "0xENV", "0xprofile", "0xOWNER", "0xowner", "0xUSER", "0x0000"}

\* userConfig.networks[userConfig.activeNetwork], undefined when the store has no
\* such entry or no active network
ActiveProfileExists(c) == c.activeNetwork = "main"

ChooseEndpointStrict(c) ==
    IF ActiveProfileExists(c)
      THEN IF c.rpcUrl # "" /\ c.contractAddress # "" /\ isAddress(c.contractAddress)
             THEN [rpc |-> c.rpcUrl, contract |-> c.contractAddress,
                   source |-> "profile", warned |-> FALSE]
           ELSE [rpc |-> "", contract |-> "", source |-> "", warned |-> TRUE]
    ELSE IF c.RPC_URL # "" /\ c.CONTRACT_ADDRESS # "" /\ isAddress(c.CONTRACT_ADDRESS)
      THEN [rpc |-> c.RPC_URL, contract |-> c.CONTRACT_ADDRESS,
            source |-> "env", warned |-> FALSE]
    ELSE [rpc |-> "", contract |-> "", source |-> "", warned |-> FALSE]

\* priority 1, the active network profile; priority 2, the environment
ChooseEndpoint(c) ==
    LET profileOk == /\ ActiveProfileExists(c)
                     /\ c.rpcUrl # "" /\ c.contractAddress # ""
                     /\ isAddress(c.contractAddress)
        warned == ActiveProfileExists(c) /\ ~profileOk
    IN IF profileOk
         THEN [rpc |-> c.rpcUrl, contract |-> c.contractAddress,
               source |-> "profile", warned |-> FALSE]
       ELSE IF c.RPC_URL # "" /\ c.CONTRACT_ADDRESS # "" /\ isAddress(c.CONTRACT_ADDRESS)
         THEN [rpc |-> c.RPC_URL, contract |-> c.CONTRACT_ADDRESS,
               source |-> "env", warned |-> warned]
       ELSE [rpc |-> "", contract |-> "", source |-> "", warned |-> warned]

IpfsUrlFromEnvOnly(c) == c.IPFS_API_URL
\* envIpfsApiUrl || DEFAULT_IPFS_API_URL
IpfsApiUrl(c) == IF c.IPFS_API_URL # "" THEN c.IPFS_API_URL ELSE DEFAULT_IPFS_API_URL

NetInit ==
    /\ InstallIdle
    /\ InfoIdle
    /\ CmdIdle
    /\ cfg \in [activeNetwork : {"null", "main", "gone"},
                rpcUrl : {"", "http://profile"},
                contractAddress : {"", "not-an-address", "0xPROFILE"},
                RPC_URL : {"", "http://env"},
                CONTRACT_ADDRESS : {"", "not-an-address", "0xENV"},
                IPFS_API_URL : {"", "http://ipfs.env"},
                rpcUp : BOOLEAN, ipfsUp : BOOLEAN]
    /\ net = [pc |-> "config", rpcToUse |-> "", contractAddrToUse |-> "", source |-> "",
              warned |-> FALSE, ipfsApiUrlToUse |-> "", exit |-> "none"]

\* loadNetworkConfig, the two priorities, the guidance exit and the IPFS URL
NetResolveConfig ==
    /\ net.pc = "config"
    /\ LET e == ChooseEndpoint(cfg)
           ipfsApiUrlToUse == IpfsApiUrl(cfg)
       IN IF e.rpc = "" \/ e.contract = ""
            THEN net' = [net EXCEPT !.pc = "exit", !.exit = "CONFIG_MISSING",
                                    !.warned = e.warned]
          ELSE IF ipfsApiUrlToUse = ""
            THEN net' = [net EXCEPT !.pc = "exit", !.exit = "CONFIG_MISSING",
                                    !.rpcToUse = e.rpc, !.contractAddrToUse = e.contract,
                                    !.source = e.source, !.warned = e.warned]
          ELSE net' = [net EXCEPT !.pc = "connect",
                                  !.rpcToUse = e.rpc, !.contractAddrToUse = e.contract,
                                  !.source = e.source, !.warned = e.warned,
                                  !.ipfsApiUrlToUse = ipfsApiUrlToUse]
    /\ UNCHANGED <<cmdVars, installVars, lib, info, cfg>>

\* the provider, the read-only contract and its getAddress()
NetConnectRpc ==
    /\ net.pc = "connect"
    /\ net' = IF cfg.rpcUp THEN [net EXCEPT !.pc = "ipfs"]
              ELSE [net EXCEPT !.pc = "exit", !.exit = "RPC_UNREACHABLE"]
    /\ UNCHANGED <<cmdVars, installVars, lib, info, cfg>>

\* the IPFS client and its version() probe
NetConnectIpfs ==
    /\ net.pc = "ipfs"
    /\ net' = IF cfg.ipfsUp THEN [net EXCEPT !.pc = "ready"]
              ELSE [net EXCEPT !.pc = "exit", !.exit = "IPFS_UNREACHABLE"]
    /\ UNCHANGED <<cmdVars, installVars, lib, info, cfg>>

NetNext ==
    \/ NetResolveConfig
    \/ NetConnectRpc
    \/ NetConnectIpfs

NetSpec == NetInit /\ [][NetNext]_vars

\* the event loop runs every continuation of a started command; issuing the
\* command again is up to the user
Step ==
    \/ InstallAccessCheck
    \/ InstallResolveLatest
    \/ InstallCall
    \/ FetchVersions
    \/ CheckAccess
    \/ FetchVersionInfo
    \/ Download
    \/ NextDependency
    \/ Return
    \/ InstallFinish

\* installs during which every registry read, access check and download succeeds
ReliableInit == Init /\ fault = NoFault

FairSpec == ReliableInit /\ [][Next]_vars /\ WF_vars(Step)

(***************************************************************************)
(* tpkm config add / set-active / remove: the profile store networks.json. *)
(* The store is the object JSON.parse returns: config.networks[name] finds *)
(* the profiles saved under their names and also the properties every      *)
(* object inherits from Object.prototype.                                  *)
(***************************************************************************)
ProfileNames == {"local", "sepolia", "constructor"}

\* names of properties that every parsed object inherits
Inherited == {"constructor"}

\* a URL is <<scheme, rest>>; NoUrl is the empty string or a flag not given
NoUrl == <<>>

RpcUrls == {<<"http", "localhost:8545">>, <<"wss", "rpc.sepolia.org">>}

\* a URL the --rpc flag may carry that is no RPC endpoint
OtherUrls == {<<"ftp", "node">>}

\* input.startsWith('http://') || 'https://' || 'ws://' || 'wss://'
HasRpcScheme(url) == url # NoUrl /\ url[1] \in {"http", "https", "ws", "wss"}

\* contract addresses as typed: in lower case, with checksum, or no address
ContractInputs == {"0xprofile", "0xPROFILE", "not-an-address"}

\* ethers.getAddress of a well-formed address: the checksum form
getAddress(a) == IF a = "0xprofile" THEN "0xPROFILE" ELSE a

Profile(rpcUrl, contractAddress) == [rpcUrl |-> rpcUrl, contractAddress |-> contractAddress]

\* the final validation of the URL: !rpcUrl is false
UrlAccepted(rpcUrl) == rpcUrl # NoUrl

NoNetworks == [n \in {} |-> Profile(NoUrl, "")]

\* loadNetworkConfig when networks.json does not exist
EmptyStore == [activeNetwork |-> "null", networks |-> NoNetworks]

\* Object.keys(config.networks)
Keys(networks) == DOMAIN networks

\* config.networks[name] is truthy
HasProfile(networks, name) == name \in Keys(networks) \/ name \in Inherited

\* config.networks[name] = { rpcUrl, contractAddress }
PutProfile(networks, name, profile) ==
    [n \in Keys(networks) \cup {name} |-> IF n = name THEN profile ELSE networks[n]]

\* delete config.networks[name]
DeleteProfile(networks, name) == [n \in Keys(networks) \ {name} |-> networks[n]]

\* saveNetworkConfig: a failed write is logged and the file keeps its content
saveNetworkConfig(file, config, written) == IF written THEN config ELSE file

NoCommand == [cmd |-> "none", name |-> "none", confirmed |-> FALSE, written |-> FALSE,
              before |-> EmptyStore]

ConfigInit ==
    /\ InstallIdle
    /\ InfoIdle
    /\ NetIdle
    /\ PublishIdle /\ LicenseIdle /\ ErrIdle /\ WalletIdle /\ OwnerIdle
    /\ \E file \in {EmptyStore,
                    [activeNetwork |-> "local",
                     networks |-> PutProfile(NoNetworks, "local",
                                     Profile(<<"http", "localhost:8545">>, "0xPROFILE"))]} :
          store = [pc |-> "ready", file |-> file, last |-> NoCommand]

\* config add <name>: --rpc and --contract, or the answers to the prompts, which
\* inquirer accepts only when validate holds.  ethers.getAddress throws for a
\* --contract that is no address; invalid input ends the command before the
\* store is loaded
ConfigAdd ==
    /\ store.pc = "ready"
    /\ \E name \in ProfileNames, rpcUrlOption \in RpcUrls \cup OtherUrls \cup {NoUrl},
          rpcUrlAnswer \in {u \in RpcUrls : HasRpcScheme(u)},
          contractAddressOption \in ContractInputs \cup {""},
          contractAddressAnswer \in {getAddress(a) : a \in {b \in ContractInputs : isAddress(b)}},
          setActive \in BOOLEAN, written \in BOOLEAN :
          LET rpcUrl == IF rpcUrlOption # NoUrl THEN rpcUrlOption ELSE rpcUrlAnswer
              given == IF contractAddressOption # "" THEN contractAddressOption
                       ELSE contractAddressAnswer
              thrown == ~isAddress(given)
              contractAddress == getAddress(given)
              valid == ~thrown /\ UrlAccepted(rpcUrl) /\ isAddress(contractAddress)
              config == store.file
              networks == PutProfile(config.networks, name, Profile(rpcUrl, contractAddress))
              active == IF setActive \/ config.activeNetwork = "null"
                           \/ Cardinality(Keys(networks)) = 1
                        THEN name ELSE config.activeNetwork
              saved == [activeNetwork |-> active, networks |-> networks]
          IN store' = [store EXCEPT
                 !.file = IF valid THEN saveNetworkConfig(store.file, saved, written) ELSE @,
                 !.last = [cmd |-> "add", name |-> name, confirmed |-> valid,
                           written |-> valid /\ written, before |-> store.file]]
    /\ UNCHANGED <<installVars, lib, info, cfg, net, pub, lic, err, wal, own>>

\* config set-active <name>
ConfigSetActive ==
    /\ store.pc = "ready"
    /\ \E name \in ProfileNames, written \in BOOLEAN :
          LET config == store.file
              found == HasProfile(config.networks, name)
              saved == [config EXCEPT !.activeNetwork = name]
          IN store' = [store EXCEPT
                 !.file = IF found THEN saveNetworkConfig(store.file, saved, written) ELSE @,
                 !.last = [cmd |-> "set-active", name |-> name, confirmed |-> found,
                           written |-> found /\ written, before |-> store.file]]
    /\ UNCHANGED <<installVars, lib, info, cfg, net, pub, lic, err, wal, own>>

\* config remove <name>, with the confirmation accepted or declined
ConfigRemove ==
    /\ store.pc = "ready"
    /\ \E name \in ProfileNames, confirmRemove \in BOOLEAN, written \in BOOLEAN :
          LET config == store.file
              found == HasProfile(config.networks, name)
              saved == [activeNetwork |-> IF config.activeNetwork = name THEN "null"
                                          ELSE config.activeNetwork,
                        networks |-> DeleteProfile(config.networks, name)]
              go == found /\ confirmRemove
          IN store' = [store EXCEPT
                 !.file = IF go THEN saveNetworkConfig(store.file, saved, written) ELSE @,
                 !.last = [cmd |-> "remove", name |-> name, confirmed |-> go,
                           written |-> go /\ written, before |-> store.file]]
    /\ UNCHANGED <<installVars, lib, info, cfg, net, pub, lic, err, wal, own>>

ConfigNext ==
    \/ ConfigAdd
    \/ ConfigSetActive
    \/ ConfigRemove

ConfigSpec == ConfigInit /\ [][ConfigNext]_vars

(***************************************************************************)
(* tpkm publish <directory>, from loadWalletAndConnect to the end of the   *)
(* process.  What the keystore, the file system, the registry, IPFS and    *)
(* the chain answer is fixed in pub.env; each await is one step.           *)
(* pub.exitCode is the code the process ends with: process.exitCode is     *)
(* never assigned, so it is 0 unless process.exit(1) is called.            *)
(***************************************************************************)
\* config.name of lib.config.json, as a sequence of characters: "a" stands for
\* a lower-case letter or digit, "A" for any other character, "-" for one of
\* the separators - _ .  The empty sequence is a missing name.
NoName == <<>>

ConfigNames == {NoName, <<"a", "-", "a">>, <<"A", "-", "a">>, <<"-", "a">>}

\* semver.valid(versionString) is not null, for the version texts of
\* lib.config.json and of --version ("" is none)
valid(text) == text \in {"1.0.0", "2.0.0-beta.1"}

\* versionString = options.version || config.version
EffectiveVersion(env) ==
    IF env.optionVersion # "" THEN env.optionVersion ELSE env.configVersion

\* steps 1-2 throw nothing: the directory and lib.config.json exist, the name
\* is a non-empty string, the version is present and valid
ValidationPasses(env) ==
    /\ env.directory = "ok"
    /\ env.name # NoName
    /\ EffectiveVersion(env) # ""
    /\ valid(EffectiveVersion(env))

PublishEnvs ==
    [wallet : {"ok", "noKeystore", "unreadable", "emptyPassword", "wrongPassword",
               "connectFailed"},
     directory : {"ok", "noDirectory"},
     name : ConfigNames,
     configVersion : {"", "1.0.0", "latest"},
     optionVersion : {"", "2.0.0-beta.1", "latest"},
     owner : {"signer", "other", "zero", "notFound"},
     archive : {"ok", "failedPartial", "failedNoFile"},
     upload : {"ok", "failed", "noCid"},
     send : {"accepted", "rejected"},
     wait : {"confirmed", "reverted", "lost"},
     unlink : BOOLEAN]

\* ownerAddressOnChain.toLowerCase() === currentSignerWallet.address.toLowerCase();
\* a getLibraryInfo that reverts is caught by the same handler
OwnerCheckSkipped(owner) == TRUE

OwnershipConfirmed(owner) == owner = "signer"

\* process.exit(1) in loadWalletAndConnect
ProcessExit(p) == [p EXCEPT !.pc = "exited", !.outcome = "failure", !.exitCode = 1]

\* the outer catch: the failure is printed, nothing is thrown further
PublishCatch(p) == [p EXCEPT !.pc = "finally", !.outcome = "failure"]

\* finally that removes the archive only after a successful publication
FinallyOnSuccess(p) ==
    IF p.tempExists /\ p.outcome = "success"
    THEN [p EXCEPT !.pc = "end", !.tempExists = ~p.env.unlink, !.warned = ~p.env.unlink]
    ELSE [p EXCEPT !.pc = "end"]

\* finally: fs.existsSync(tempArchivePath), fs.unlinkSync, warning when it throws
Finally(p) ==
    IF p.tempExists
    THEN [p EXCEPT !.pc = "end", !.tempExists = ~p.env.unlink, !.warned = ~p.env.unlink]
    ELSE [p EXCEPT !.pc = "end"]

\* a publishVersion transaction that is mined without reverting adds the
\* version record
Mined(p) == [p EXCEPT !.pending = FALSE, !.records = @ + 1]

\* success is reported as soon as the transaction is sent
SubmitNoWait(p) == [p EXCEPT !.pc = "finally", !.submitted = @ + 1, !.pending = TRUE,
                             !.outcome = "success"]

\* writableContractInstance.publishVersion(...) accepted by the node
Submit(p) == [p EXCEPT !.pc = "wait", !.submitted = @ + 1, !.pending = TRUE]

PublishInit ==
    /\ InstallIdle
    /\ InfoIdle
    /\ NetIdle
    /\ ConfigIdle /\ LicenseIdle /\ ErrIdle /\ WalletIdle /\ OwnerIdle
    /\ \E env \in PublishEnvs :
          pub = [pc |-> "wallet", env |-> env, tempExists |-> FALSE, archives |-> 0,
                 uploads |-> 0, submitted |-> 0, pending |-> FALSE, records |-> 0,
                 outcome |-> "none", warned |-> FALSE, exitCode |-> 0]

PublishFrame == UNCHANGED <<installVars, lib, info, cfg, net, store, lic, err, wal, own>>

\* loadWalletAndConnect(): keystore missing or unreadable, empty password,
\* failed decryption and failed connection end the process at once
PublishLoadWallet ==
    /\ pub.pc = "wallet"
    /\ pub' = IF pub.env.wallet = "ok" THEN [pub EXCEPT !.pc = "validate"]
              ELSE ProcessExit(pub)
    /\ PublishFrame

\* steps 1-2: the directory, lib.config.json, name and version
PublishValidate ==
    /\ pub.pc = "validate"
    /\ pub' = IF ValidationPasses(pub.env) THEN [pub EXCEPT !.pc = "owner"]
              ELSE PublishCatch(pub)
    /\ PublishFrame

\* step 3: ownership pre-check
PublishOwnerCheck ==
    /\ pub.pc = "owner"
    /\ pub' = IF OwnershipConfirmed(pub.env.owner) THEN [pub EXCEPT !.pc = "archive"]
              ELSE PublishCatch(pub)
    /\ PublishFrame

\* step 4: archiveDirectory(dirPath, tempArchivePath)
PublishArchive ==
    /\ pub.pc = "archive"
    /\ pub' = CASE pub.env.archive = "ok" ->
                     [pub EXCEPT !.pc = "upload", !.archives = @ + 1, !.tempExists = TRUE]
                [] pub.env.archive = "failedPartial" ->
                     PublishCatch([pub EXCEPT !.archives = @ + 1, !.tempExists = TRUE])
                [] OTHER -> PublishCatch(pub)
    /\ PublishFrame

\* step 5: uploadToIpfs(tempArchivePath)
PublishUpload ==
    /\ pub.pc = "upload"
    /\ pub' = CASE pub.env.upload = "ok" -> [pub EXCEPT !.pc = "tx", !.uploads = @ + 1]
                [] pub.env.upload = "noCid" -> PublishCatch([pub EXCEPT !.uploads = @ + 1])
                [] OTHER -> PublishCatch(pub)
    /\ PublishFrame

\* step 6, first await: the transaction is sent
PublishSubmit ==
    /\ pub.pc = "tx"
    /\ pub' = IF pub.env.send = "accepted" THEN Submit(pub) ELSE PublishCatch(pub)
    /\ PublishFrame

\* step 6, second await: tx.wait(1) returns the receipt, throws because the
\* transaction reverted, or throws because the receipt could not be read
PublishWait ==
    /\ pub.pc = "wait"
    /\ pub' = CASE pub.env.wait = "confirmed" ->
                     [Mined(pub) EXCEPT !.pc = "finally", !.outcome = "success"]
                [] pub.env.wait = "reverted" -> PublishCatch([pub EXCEPT !.pending = FALSE])
                [] OTHER -> PublishCatch(pub)
    /\ PublishFrame

\* step 7
PublishCleanup ==
    /\ pub.pc = "finally"
    /\ pub' = Finally(pub)
    /\ PublishFrame

\* the chain: a transaction still pending is mined, or dropped, at any time
ChainMine ==
    /\ pub.pc # "idle"
    /\ pub.pending
    /\ pub.pc # "wait"
    /\ \/ pub' = Mined(pub)
       \/ pub' = [pub EXCEPT !.pending = FALSE]
    /\ PublishFrame

PublishNext ==
    \/ PublishLoadWallet
    \/ PublishValidate
    \/ PublishOwnerCheck
    \/ PublishArchive
    \/ PublishUpload
    \/ PublishSubmit
    \/ PublishWait
    \/ PublishCleanup
    \/ ChainMine

PublishSpec == PublishInit /\ [][PublishNext]_vars

(***************************************************************************)
(* tpkm purchase-license and tpkm set-license, from the point where the    *)
(* wallet is loaded.  Amounts of ether are counted in units of 10^15 wei   *)
(* (0.001 ETH), so that 0.01 ETH is 10.                                    *)
(***************************************************************************)
Fees == {0, 10, 20}

\* an amount as typed: the text after trim() and toLowerCase(), and its parts
\* after split(/\s+/)
Amount(text, parts) == [text |-> text, parts |-> parts]

NoAmount == Amount("", <<>>)

AmountOptions ==
    {NoAmount,
     Amount("0", <<"0">>),
     Amount("0 eth", <<"0", "eth">>),
     Amount("none", <<"none">>),
     Amount("0.01 eth", <<"0.01", "eth">>),
     Amount("0.02 eth", <<"0.02", "eth">>),
     Amount("0.005 ether", <<"0.005", "ether">>),
     Amount("5000000 gwei", <<"5000000", "gwei">>),
     Amount("10000000000000000 wei", <<"10000000000000000", "wei">>),
     Amount("-0.01 eth", <<"-0.01", "eth">>),
     Amount("0.01", <<"0.01">>),
     Amount("0.01 btc", <<"0.01", "btc">>),
     Amount("abc eth", <<"abc", "eth">>),
     Amount("1abc eth", <<"1abc", "eth">>)}

\* isNaN(parseFloat(token))
IsNaN(token) == token \in {"abc", "none", "eth", "ether", "gwei", "wei", "btc"}

\* the decimal strings ethers.parseUnits accepts, as mantissa and exponent of ten
Decimal(token) ==
    CASE token = "0" -> <<0, 0>>
      [] token = "0.01" -> <<1, -2>>
      [] token = "0.02" -> <<2, -2>>
      [] token = "0.005" -> <<5, -3>>
      [] token = "-0.01" -> <<-1, -2>>
      [] token = "5000000" -> <<5, 6>>
      [] token = "10000000000000000" -> <<1, 16>>
      [] OTHER -> <<>>

RECURSIVE Pow10(_)
Pow10(n) == IF n = 0 THEN 1 ELSE 10 * Pow10(n - 1)

\* decimals of the unit, less the 15 of the unit amounts are counted in
UnitDecimals(unit) ==
    CASE unit = "ether" -> 3
      [] unit = "gwei" -> -6
      [] unit = "wei" -> -15

\* ethers.parseUnits(value, unit); <<>> when it throws
parseUnits(value, unit) ==
    IF Decimal(value) = <<>> THEN <<>>
    ELSE <<Decimal(value)[1] * Pow10(Decimal(value)[2] + UnitDecimals(unit))>>

\* "<value> <unit>" as both commands parse it; <<>> when an error is thrown
ParseValueUnit(a) ==
    IF Len(a.parts) # 2 \/ IsNaN(a.parts[1])
       \/ a.parts[2] \notin {"eth", "ether", "gwei", "wei"}
    THEN <<>>
    ELSE parseUnits(a.parts[1], IF a.parts[2] = "eth" THEN "ether" ELSE a.parts[2])

\* purchase-license --amount: the value to send, <<>> when the command stops
AmountToSend(a, licenseFeeOnChain) ==
    IF a = NoAmount THEN <<licenseFeeOnChain>>
    ELSE IF a.text = "0" /\ licenseFeeOnChain > 0 THEN <<>>
    ELSE IF a.text \in {"0", "0 eth", "0 ether", "0 gwei"} THEN <<0>>
    ELSE ParseValueUnit(a)

\* set-license --fee or the answer to the prompt; Enter keeps the current fee
FeeToSet(a, licenseFee) ==
    IF a = NoAmount THEN <<licenseFee>>
    ELSE IF a.text \in {"none", "0", "0 eth", "0 ether", "0 gwei"} THEN <<0>>
    ELSE ParseValueUnit(a)

\* purchase-license pre-checks on the library record; the private check lost
PurchasePreCheckNoPrivate(e) ==
    IF e.isOwner THEN "owner"
    ELSE IF ~e.licenseRequired THEN "notRequired"
    ELSE "ok"

\* purchase-license pre-checks on the library record
PurchasePreCheck(e) ==
    IF e.isOwner THEN "owner"
    ELSE IF e.isPrivate THEN "private"
    ELSE IF ~e.licenseRequired THEN "notRequired"
    ELSE "ok"

FeeNeverChecked(amountToSendInWei, licenseFeeOnChain) == FALSE

\* amountToSendInWei < licenseFeeOnChain
BelowFee(amountToSendInWei, licenseFeeOnChain) == amountToSendInWei < licenseFeeOnChain

PrivateAllowed(isPrivate, isRequired) == FALSE

\* currentLibInfo.isPrivate && isRequired
PrivateRequired(isPrivate, isRequired) == isPrivate /\ isRequired

\* --required <true_or_false>, or the answer to the confirm prompt
RequiredInputs ==
    {[option |-> "true"], [option |-> "false"], [option |-> "TRUE"], [option |-> "yes"],
     [answer |-> TRUE], [answer |-> FALSE]}

\* String.prototype.toLowerCase on the texts that occur
toLowerCase(text) ==
    CASE text = "TRUE" -> "true"
      [] text = "YES" -> "yes"
      [] text = "0xOWNER" -> "0xowner"
      [] text = "0xUSER" -> "0xuser"
      [] text = "0xOTHER" -> "0xother"
      [] OTHER -> text

IsRequired(r) ==
    IF "option" \in DOMAIN r THEN toLowerCase(r.option) = "true" ELSE r.answer

LicenseEnvs ==
    [cmd : {"purchase-license", "set-license"},
     infoFails : BOOLEAN, isOwner : BOOLEAN, isPrivate : BOOLEAN,
     licenseRequired : BOOLEAN, licenseFee : Fees, hasUserLicense : BOOLEAN,
     amount : AmountOptions, required : RequiredInputs, confirmPurchase : BOOLEAN]

LicenseInit ==
    /\ InstallIdle
    /\ InfoIdle
    /\ NetIdle
    /\ ConfigIdle /\ PublishIdle /\ ErrIdle /\ WalletIdle /\ OwnerIdle
    /\ \E env \in LicenseEnvs :
          lic = [pc |-> "info", env |-> env, value |-> 0, isRequired |-> FALSE,
                 txs |-> <<>>, warned |-> FALSE, outcome |-> "none"]

LicenseFrame == UNCHANGED <<installVars, lib, info, cfg, net, store, pub, err, wal, own>>

LicenseEnd(l, outcome) == [l EXCEPT !.pc = "end", !.outcome = outcome]

\* purchase-license: getLibraryInfo and the checks on the record
PurchaseGetInfo ==
    /\ lic.pc = "info" /\ lic.env.cmd = "purchase-license"
    /\ lic' = IF lic.env.infoFails THEN LicenseEnd(lic, "error")
              ELSE IF PurchasePreCheck(lic.env) # "ok"
                   THEN LicenseEnd(lic, PurchasePreCheck(lic.env))
              ELSE [lic EXCEPT !.pc = "license"]
    /\ LicenseFrame

\* purchase-license: hasUserLicense, then the amount to send
PurchaseCheckLicense ==
    /\ lic.pc = "license" /\ lic.env.cmd = "purchase-license"
    /\ LET amountToSendInWei == AmountToSend(lic.env.amount, lic.env.licenseFee)
       IN lic' = IF lic.env.hasUserLicense THEN LicenseEnd(lic, "alreadyOwned")
                 ELSE IF amountToSendInWei = <<>> THEN LicenseEnd(lic, "invalidAmount")
                 ELSE IF BelowFee(amountToSendInWei[1], lic.env.licenseFee)
                      THEN LicenseEnd(lic, "belowFee")
                 ELSE [lic EXCEPT !.pc = "confirm", !.value = amountToSendInWei[1],
                                  !.warned = amountToSendInWei[1] > lic.env.licenseFee]
    /\ LicenseFrame

\* purchase-license: the confirmation prompt
PurchaseConfirm ==
    /\ lic.pc = "confirm" /\ lic.env.cmd = "purchase-license"
    /\ lic' = IF lic.env.confirmPurchase THEN [lic EXCEPT !.pc = "send"]
              ELSE LicenseEnd(lic, "cancelled")
    /\ LicenseFrame

\* purchase-license: purchaseLibraryLicense(libraryName, { value })
PurchaseSubmit ==
    /\ lic.pc = "send" /\ lic.env.cmd = "purchase-license"
    /\ \/ lic' = [lic EXCEPT !.pc = "wait",
                    !.txs = Append(@, [fn |-> "purchaseLibraryLicense", value |-> lic.value])]
       \/ lic' = LicenseEnd(lic, "error")
    /\ LicenseFrame

\* set-license: getLibraryInfo and the ownership check
SetLicenseGetInfo ==
    /\ lic.pc = "info" /\ lic.env.cmd = "set-license"
    /\ lic' = IF lic.env.infoFails \/ ~lic.env.isOwner THEN LicenseEnd(lic, "error")
              ELSE [lic EXCEPT !.pc = "prompt", !.value = lic.env.licenseFee,
                               !.isRequired = lic.env.licenseRequired]
    /\ LicenseFrame

\* set-license: the prompts, the new fee and requirement, the private check
SetLicensePrompt ==
    /\ lic.pc = "prompt" /\ lic.env.cmd = "set-license"
    /\ LET feeInWei == FeeToSet(lic.env.amount, lic.env.licenseFee)
           isRequired == IsRequired(lic.env.required)
       IN lic' = IF feeInWei = <<>> THEN LicenseEnd(lic, "invalidAmount")
                 ELSE IF PrivateRequired(lic.env.isPrivate, isRequired)
                      THEN LicenseEnd([lic EXCEPT !.warned = feeInWei[1] > 0 /\ ~isRequired],
                                      "private")
                 ELSE [lic EXCEPT !.pc = "send", !.value = feeInWei[1],
                                  !.isRequired = isRequired,
                                  !.warned = feeInWei[1] > 0 /\ ~isRequired]
    /\ LicenseFrame

\* set-license: setLibraryLicense(libraryName, feeInWei, isRequired)
SetLicenseSubmit ==
    /\ lic.pc = "send" /\ lic.env.cmd = "set-license"
    /\ \/ lic' = [lic EXCEPT !.pc = "wait",
                    !.txs = Append(@, [fn |-> "setLibraryLicense", fee |-> lic.value,
                                       required |-> lic.isRequired])]
       \/ lic' = LicenseEnd(lic, "error")
    /\ LicenseFrame

\* both commands: tx.wait(1)
LicenseWait ==
    /\ lic.pc = "wait"
    /\ \/ lic' = LicenseEnd(lic, "success")
       \/ lic' = LicenseEnd(lic, "error")
    /\ LicenseFrame

LicenseNext ==
    \/ PurchaseGetInfo
    \/ PurchaseCheckLicense
    \/ PurchaseConfirm
    \/ PurchaseSubmit
    \/ SetLicenseGetInfo
    \/ SetLicensePrompt
    \/ SetLicenseSubmit
    \/ LicenseWait

LicenseSpec == LicenseInit /\ [][LicenseNext]_vars

(***************************************************************************)
(* getRevertReason(error).  A text is the sequence of phrases it contains  *)
(* and whether it is written with capitals; an absent field is NoText.     *)
(***************************************************************************)
RevertStrings ==
    <<"libraryregistry: library does not exist",
      "libraryregistry: version does not exist",
      "libraryregistry: caller is not the owner",
      "libraryregistry: library name already exists",
      "libraryregistry: version already exists",
      "libraryregistry: ipfs hash cannot be empty",
      "libraryregistry: library is not private",
      "libraryregistry: invalid user address",
      "libraryregistry: cannot delete library with published versions",
      "libraryregistry: user not authorized",
      "libraryregistry: user already authorized",
      "libraryregistry: cannot authorize owner",
      "libraryregistry: cannot revoke owner",
      "libraryregistry: private libraries cannot require a license",
      "libraryregistry: license not required",
      "libraryregistry: license already owned",
      "libraryregistry: insufficient ether sent",
      "libraryregistry: failed to send ether to library owner",
      "libraryregistry: failed to refund overpayment to buyer">>

NoText == [defined |-> FALSE, phrases |-> <<>>, capitals |-> FALSE]

Text(phrases, capitals) == [defined |-> TRUE, phrases |-> phrases, capitals |-> capitals]

\* typeof x === 'string' and x is not empty
Truthy(t) == t.defined /\ t.phrases # <<>>

\* String.prototype.toLowerCase
LowerCase(t) == [t EXCEPT !.capitals = FALSE]

\* String.prototype.includes with a lower-case argument
Includes(t, phrase) == ~t.capitals /\ \E i \in 1..Len(t.phrases) : t.phrases[i] = phrase

NoData == [defined |-> FALSE, name |-> "", arg |-> NoText]

NoNested == [defined |-> FALSE, code |-> "", reason |-> NoText, revertArg |-> NoText,
             data |-> NoData, message |-> NoText]

ErrorCodes == {"", "CALL_EXCEPTION", "UNPREDICTABLE_GAS_LIMIT", "INSUFFICIENT_FUNDS",
               "-32000", "-32003", "NONCE_EXPIRED", "REPLACEMENT_UNDERPRICED",
               "ERR_BAD_REQUEST"}

NestedCodes == {"absent", "", "-32000", "-32603"}

\* where the error object carries the revert string
Locations == {"reason", "revert.args", "data", "message", "error.reason", "error.message"}

\* an error object as ethers.js and the providers build them
MakeError(location, key, capitals, code, nestedCode) ==
    [code |-> code,
     reason |-> IF location = "reason" THEN Text(<<key>>, capitals) ELSE NoText,
     revertArg |-> IF location = "revert.args" THEN Text(<<key>>, capitals) ELSE NoText,
     data |-> IF location = "data"
              THEN [defined |-> TRUE, name |-> "Error", arg |-> Text(<<key>>, capitals)]
              ELSE NoData,
     message |-> IF location = "message"
                 THEN Text(<<"execution reverted", key>>, capitals)
                 ELSE Text(<<"transaction failed">>, TRUE),
     error |-> IF nestedCode = "absent" THEN NoNested
               ELSE [defined |-> TRUE, code |-> nestedCode,
                     reason |-> IF location = "error.reason"
                                THEN Text(<<key>>, capitals) ELSE NoText,
                     revertArg |-> NoText,
                     data |-> NoData,
                     message |-> IF location = "error.message"
                                 THEN Text(<<"execution reverted", key>>, capitals)
                                 ELSE NoText]]

\* (error.error && typeof error.error === 'object' && error.error.code) ? error.error : error
InternalError(error) ==
    IF error.error.defined /\ error.error.code # "" THEN error.error
    ELSE [defined |-> TRUE, code |-> error.code, reason |-> error.reason,
          revertArg |-> error.revertArg, data |-> error.data, message |-> error.message]

\* the switch on String(internalError.code).toUpperCase(): the message returned
\* at once, "" when the switch breaks or the code is absent
CodeMessage(code) ==
    CASE code \in {"INSUFFICIENT_FUNDS", "-32000", "-32003"} -> "insufficientFunds"
      [] code = "NONCE_EXPIRED" -> "nonce"
      [] code = "REPLACEMENT_UNDERPRICED" -> "replacementUnderpriced"
      [] OTHER -> ""

\* iface.parseError(internalError.data): Error(string) gives its argument
ParsedReason(data) ==
    IF data.name = "Error" /\ data.arg.defined THEN data.arg
    ELSE Text(<<data.name>>, TRUE)

\* specificReason
SpecificReason(internalError) ==
    IF internalError.reason.defined THEN internalError.reason
    ELSE IF internalError.revertArg.defined THEN internalError.revertArg
    ELSE IF internalError.data.defined THEN ParsedReason(internalError.data)
    ELSE IF internalError.message.defined
            /\ Includes(LowerCase(internalError.message), "execution reverted")
         THEN internalError.message
    ELSE NoText

\* specificReason || error.message
MessageToParse(error) ==
    IF Truthy(SpecificReason(InternalError(error)))
    THEN SpecificReason(InternalError(error)) ELSE error.message

\* the table of contract revert strings: the first entry the text includes
RECURSIVE TableMatch(_, _)
TableMatch(reasonToMatchLowerCase, i) ==
    IF i > Len(RevertStrings) THEN 0
    ELSE IF Includes(reasonToMatchLowerCase, RevertStrings[i]) THEN i
    ELSE TableMatch(reasonToMatchLowerCase, i + 1)

Translated(kind, key, text) == [kind |-> kind, key |-> key, text |-> text]

\* getRevertReason for an error object
getRevertReason(error) ==
    LET internalError == InternalError(error)
        reasonToMatchLowerCase == LowerCase(MessageToParse(error))
        match == TableMatch(reasonToMatchLowerCase, 1)
        isSimpleError == /\ error.code = "" /\ ~Truthy(error.reason) /\ ~error.data.defined
                         /\ ~error.revertArg.defined /\ Truthy(error.message)
    IN IF CodeMessage(internalError.code) # ""
       THEN Translated(CodeMessage(internalError.code), "", NoText)
       ELSE IF match > 0 THEN Translated("table", RevertStrings[match], NoText)
       ELSE IF error.code = "ERR_BAD_REQUEST"
               /\ Includes(reasonToMatchLowerCase, "dag node not found")
            THEN Translated("ipfsNotFound", "", NoText)
       ELSE IF isSimpleError THEN Translated("text", "", error.message)
       ELSE IF Truthy(SpecificReason(internalError))
            THEN Translated("text", "", SpecificReason(internalError))
       ELSE Translated("text", "", error.message)

ErrInit ==
    /\ InstallIdle
    /\ InfoIdle
    /\ NetIdle
    /\ ConfigIdle /\ PublishIdle /\ LicenseIdle /\ WalletIdle /\ OwnerIdle
    /\ \E location \in Locations, k \in 1..Len(RevertStrings), capitals \in BOOLEAN,
          code \in ErrorCodes, nestedCode \in NestedCodes :
          /\ (location \in {"error.reason", "error.message"}) => nestedCode # "absent"
          /\ err = [pc |-> "thrown", location |-> location, key |-> RevertStrings[k],
                    error |-> MakeError(location, RevertStrings[k], capitals, code, nestedCode),
                    returned |-> Translated("none", "", NoText)]

\* a catch block calls getRevertReason(error)
Translate ==
    /\ err.pc = "thrown"
    /\ err' = [err EXCEPT !.pc = "returned", !.returned = getRevertReason(err.error)]
    /\ UNCHANGED <<installVars, lib, info, cfg, net, store, pub, lic, wal, own>>

ErrNext == Translate

ErrSpec == ErrInit /\ [][ErrNext]_vars

(***************************************************************************)
(* tpkm wallet create, tpkm wallet import and the other commands that      *)
(* touch files, run one after another.  wal.files is the content of the    *)
(* four paths the program writes; wal.last records the last command.       *)
(***************************************************************************)
keystorePath == "~/.tacopkm/keystore.json"
networkConfigPath == "~/.tacopkm/networks.json"
configFilePath == "./lib.config.json"
tempArchivePath == "/tmp/tpkm-publish-temp.tar.gz"

Paths == {keystorePath, networkConfigPath, configFilePath, tempArchivePath}

NoFile == [kind |-> "none", key |-> "", password |-> ""]

\* the JSON keystore wallet.encrypt(password) produces
Keystore(key, password) == [kind |-> "keystore", key |-> key, password |-> password]

Data(kind) == [kind |-> kind, key |-> "", password |-> ""]

\* "" is a password that was not given, or given empty: !password
Passwords == {"", "pw1", "pw2"}

\* ethers.Wallet.createRandom()
RandomKeys == {"r1", "r2"}

\* <privateKey> arguments: two keys, a text that is no 64-digit hex string, and
\* 64 zeros, which the Wallet constructor rejects
PrivateKeys == {"k1", "k2", "malformed", "zero"}

\* /^(0x)?[0-9a-fA-F]{64}$/.test(privateKey)
WellFormed(privateKey) == privateKey # "malformed"

\* new ethers.Wallet(privateKey) does not throw
ValidKey(privateKey) == privateKey \in {"k1", "k2"}

existsSync(files, path) == files[path] # NoFile

\* the password used: options.password, or else the prompted one when the
\* confirmation repeats it; "" when the command gives up
PasswordFor(option, newPassword, confirmPassword) ==
    IF option # "" THEN option
    ELSE IF newPassword # confirmPassword THEN ""
    ELSE newPassword

\* the keystore is written whether or not the user agreed
OverwriteNeverRefused(exists, overwrite) == FALSE

\* if (fs.existsSync(keystorePath)) { prompt; if (!overwrite) return; }
OverwriteRefused(exists, overwrite) == exists /\ ~overwrite

Ran(cmd, w, asked, overwrite) ==
    [cmd |-> cmd, before |-> w.files[keystorePath], asked |-> asked,
     overwrite |-> asked /\ overwrite]

\* the part create and import share: password safeguard, overwrite question,
\* encryption and fs.writeFileSync(keystorePath, keystoreJson)
SaveKeystore(w, cmd, password, overwrite, key, encrypts) ==
    LET exists == existsSync(w.files, keystorePath) IN
    IF password = "" THEN [w EXCEPT !.last = Ran(cmd, w, FALSE, FALSE)]
    ELSE IF OverwriteRefused(exists, overwrite)
    THEN [w EXCEPT !.last = Ran(cmd, w, TRUE, overwrite)]
    ELSE IF ~encrypts THEN [w EXCEPT !.last = Ran(cmd, w, exists, overwrite)]
    ELSE [w EXCEPT !.files[keystorePath] = Keystore(key, password),
                   !.last = Ran(cmd, w, exists, overwrite)]

WalletInit ==
    /\ InstallIdle
    /\ InfoIdle
    /\ NetIdle
    /\ ConfigIdle /\ PublishIdle /\ LicenseIdle /\ ErrIdle /\ OwnerIdle
    /\ \E keystore \in {NoFile, Keystore("k1", "pw1")} :
          wal = [pc |-> "ready",
                 files |-> [path \in Paths |->
                               IF path = keystorePath THEN keystore ELSE NoFile],
                 last |-> [cmd |-> "none", before |-> keystore, asked |-> FALSE,
                           overwrite |-> FALSE]]

WalletFrame == UNCHANGED <<installVars, lib, info, cfg, net, store, pub, lic, err, own>>

\* tpkm wallet create [-p password]
WalletCreate ==
    /\ wal.pc = "ready"
    /\ \E option \in Passwords, newPassword \in Passwords \ {""},
          confirmPassword \in Passwords, overwrite \in BOOLEAN,
          key \in RandomKeys, encrypts \in BOOLEAN :
          wal' = SaveKeystore(wal, "wallet create",
                              PasswordFor(option, newPassword, confirmPassword),
                              overwrite, key, encrypts)
    /\ WalletFrame

\* tpkm wallet import <privateKey> [-p password]
WalletImport ==
    /\ wal.pc = "ready"
    /\ \E privateKey \in PrivateKeys, option \in Passwords,
          newPassword \in Passwords \ {""}, confirmPassword \in Passwords,
          overwrite \in BOOLEAN, encrypts \in BOOLEAN :
          wal' = IF ~WellFormed(privateKey)
                 THEN [wal EXCEPT !.last = Ran("wallet import", wal, FALSE, FALSE)]
                 ELSE SaveKeystore(wal, "wallet import",
                                   PasswordFor(option, newPassword, confirmPassword),
                                   overwrite, privateKey,
                                   ValidKey(privateKey) /\ encrypts)
    /\ WalletFrame

\* tpkm wallet address and loadWalletAndConnect: the keystore is read
WalletRead ==
    /\ wal.pc = "ready"
    /\ wal' = [wal EXCEPT !.last = Ran("wallet address", wal, FALSE, FALSE)]
    /\ WalletFrame

\* saveNetworkConfig: fs.writeFileSync(networkConfigPath, ...)
WalletConfigSave ==
    /\ wal.pc = "ready"
    /\ wal' = [wal EXCEPT !.files[networkConfigPath] = Data("networks"),
                          !.last = Ran("config", wal, FALSE, FALSE)]
    /\ WalletFrame

\* tpkm init: fs.writeFileSync(configFilePath, ...)
WalletInitLib ==
    /\ wal.pc = "ready"
    /\ wal' = [wal EXCEPT !.files[configFilePath] = Data("lib.config"),
                          !.last = Ran("init", wal, FALSE, FALSE)]
    /\ WalletFrame

\* tpkm publish: fs.createWriteStream(tempArchivePath), fs.unlinkSync
WalletPublish ==
    /\ wal.pc = "ready"
    /\ \E unlink \in BOOLEAN :
          wal' = [wal EXCEPT !.files[tempArchivePath] =
                                 IF unlink THEN NoFile ELSE Data("archive"),
                             !.last = Ran("publish", wal, FALSE, FALSE)]
    /\ WalletFrame

WalletNext ==
    \/ WalletCreate
    \/ WalletImport
    \/ WalletRead
    \/ WalletConfigSave
    \/ WalletInitLib
    \/ WalletPublish

WalletSpec == WalletInit /\ [][WalletNext]_vars

(***************************************************************************)
(* tpkm delete, tpkm authorize and tpkm revoke, from the point where the   *)
(* wallet is loaded.  What the registry answers and what the user types is *)
(* fixed in own.env; each await is one step.  own.log lists the checks and *)
(* confirmations that passed, in order; own.txs the transactions sent.     *)
(***************************************************************************)
\* currentSignerWallet.address
SignerAddress == "0xOWNER"

\* the <libraryName> argument
LibraryArgument == "my-lib"

\* an answer that validate rejects is asked for again by the prompt; here it
\* reaches the comparison after the prompt, which cancels the command
OwnerEnvs ==
    [cmd : {"delete", "authorize", "revoke"},
     userAddress : {"not-an-address", "0x0000", "0xowner", "0xUSER"},
     ownerAddressOnChain : {"0xOWNER", "0xOTHER", "reverted"},
     isPrivate : BOOLEAN,
     versions : {0, 2}, versionsFail : BOOLEAN,
     currentlyAuthorized : BOOLEAN, accessFails : BOOLEAN,
     confirmYes : {"yes", "YES", "no", "interrupted"},
     confirmName : {"my-lib", "My-Lib", "interrupted"},
     confirmRevoke : BOOLEAN]

\* userAddress === ethers.ZeroAddress
ZeroAddress == "0x0000"

\* ownerAddressOnChain.toLowerCase() === currentSignerWallet.address.toLowerCase()
SignerIsOwner(ownerAddressOnChain) ==
    toLowerCase(ownerAddressOnChain) = toLowerCase(SignerAddress)

\* userAddress.toLowerCase() === ownerAddressOnChain.toLowerCase()
TargetIsOwner(userAddress, ownerAddressOnChain) ==
    toLowerCase(userAddress) = toLowerCase(ownerAddressOnChain)

VersionsIgnored(versions) == FALSE

\* versions.length > 0
HasPublishedVersions(versions) == versions > 0

\* validate and filter of the first prompt, then confirmYes !== 'yes'
ConfirmedYes(input) == toLowerCase(input) = "yes"

\* validate of the second prompt, then confirmName !== libraryName
NameConfirmed(input, libraryName) == input = libraryName

AccessNeverBlocks(cmd, currentlyAuthorized) == FALSE

\* authorize ends when the user is already authorized, revoke when not
AccessBlocks(cmd, currentlyAuthorized) ==
    IF cmd = "authorize" THEN currentlyAuthorized ELSE ~currentlyAuthorized

\* the write function each command calls
WriteFunction(cmd) ==
    CASE cmd = "delete" -> "deleteLibrary"
      [] cmd = "authorize" -> "authorizeUser"
      [] cmd = "revoke" -> "revokeAuthorization"

OwnerEnd(o, outcome) == [o EXCEPT !.pc = "end", !.outcome = outcome]

OwnerPassed(o, pc, check) == [o EXCEPT !.pc = pc, !.log = Append(@, check)]

OwnerInit ==
    /\ InstallIdle
    /\ InfoIdle
    /\ NetIdle
    /\ ConfigIdle /\ PublishIdle /\ LicenseIdle /\ ErrIdle /\ WalletIdle
    /\ \E env \in OwnerEnvs :
          own = [pc |-> "validate", env |-> env, log |-> <<>>, txs |-> <<>>,
                 outcome |-> "none"]

OwnerFrame == UNCHANGED <<installVars, lib, info, cfg, net, store, pub, lic, err, wal>>

\* authorize and revoke: ethers.isAddress(userAddress); authorize: the zero address
OwnerValidate ==
    /\ own.pc = "validate"
    /\ own' = IF own.env.cmd = "delete" THEN [own EXCEPT !.pc = "info"]
              ELSE IF ~isAddress(own.env.userAddress) THEN OwnerEnd(own, "invalidAddress")
              ELSE IF own.env.cmd = "authorize" /\ own.env.userAddress = ZeroAddress
                   THEN OwnerEnd(own, "zeroAddress")
              ELSE OwnerPassed(own, "info", "address")
    /\ OwnerFrame

\* getLibraryInfo, the ownership check and, for authorize and revoke, the
\* privacy check and the check that the user is not the owner
OwnerGetInfo ==
    /\ own.pc = "info"
    /\ LET e == own.env
       IN own' =
            IF e.ownerAddressOnChain = "reverted" THEN OwnerEnd(own, "error")
            ELSE IF ~SignerIsOwner(e.ownerAddressOnChain) THEN OwnerEnd(own, "notOwner")
            ELSE IF e.cmd = "delete" THEN OwnerPassed(own, "versions", "owner")
            ELSE IF ~e.isPrivate
                 THEN OwnerEnd([own EXCEPT !.log = Append(@, "owner")], "public")
            ELSE IF TargetIsOwner(e.userAddress, e.ownerAddressOnChain)
                 THEN OwnerEnd([own EXCEPT !.log = @ \o <<"owner", "private">>],
                               "targetIsOwner")
            ELSE [own EXCEPT !.pc = "access",
                             !.log = @ \o <<"owner", "private", "notOwnerTarget">>]
    /\ OwnerFrame

\* delete: getVersionNumbers
DeleteCheckVersions ==
    /\ own.pc = "versions"
    /\ own' = IF own.env.versionsFail THEN OwnerEnd(own, "error")
              ELSE IF HasPublishedVersions(own.env.versions)
                   THEN OwnerEnd(own, "hasVersions")
              ELSE OwnerPassed(own, "yes", "versions")
    /\ OwnerFrame

\* delete: the first confirmation
DeleteConfirmYes ==
    /\ own.pc = "yes"
    /\ own' = IF own.env.confirmYes = "interrupted" THEN OwnerEnd(own, "promptError")
              ELSE IF ConfirmedYes(own.env.confirmYes) THEN OwnerPassed(own, "name", "yes")
              ELSE OwnerEnd(own, "cancelled")
    /\ OwnerFrame

\* delete: the second confirmation
DeleteConfirmName ==
    /\ own.pc = "name"
    /\ own' = IF own.env.confirmName = "interrupted" THEN OwnerEnd(own, "promptError")
              ELSE IF NameConfirmed(own.env.confirmName, LibraryArgument)
                   THEN OwnerPassed(own, "send", "name")
              ELSE OwnerEnd(own, "cancelled")
    /\ OwnerFrame

\* authorize and revoke: hasAccess(libraryName, userAddress)
OwnerCheckAccess ==
    /\ own.pc = "access"
    /\ own' = IF own.env.accessFails THEN OwnerEnd(own, "error")
              ELSE IF AccessBlocks(own.env.cmd, own.env.currentlyAuthorized)
                   THEN OwnerEnd(own, "nothingToDo")
              ELSE OwnerPassed(own, IF own.env.cmd = "revoke" THEN "confirm" ELSE "send",
                               "access")
    /\ OwnerFrame

\* revoke: the confirm prompt
RevokeConfirm ==
    /\ own.pc = "confirm"
    /\ own' = IF own.env.confirmRevoke THEN OwnerPassed(own, "send", "confirmed")
              ELSE OwnerEnd(own, "cancelled")
    /\ OwnerFrame

\* deleteLibrary, authorizeUser or revokeAuthorization is sent, or the node
\* rejects it
OwnerSubmit ==
    /\ own.pc = "send"
    /\ \/ own' = [own EXCEPT !.pc = "wait", !.txs = Append(@, WriteFunction(own.env.cmd))]
       \/ own' = OwnerEnd(own, "error")
    /\ OwnerFrame

\* tx.wait(1)
OwnerWait ==
    /\ own.pc = "wait"
    /\ \/ own' = OwnerEnd(own, "success")
       \/ own' = OwnerEnd(own, "error")
    /\ OwnerFrame

OwnerNext ==
    \/ OwnerValidate
    \/ OwnerGetInfo
    \/ DeleteCheckVersions
    \/ DeleteConfirmYes
    \/ DeleteConfirmName
    \/ OwnerCheckAccess
    \/ RevokeConfirm
    \/ OwnerSubmit
    \/ OwnerWait

OwnerSpec == OwnerInit /\ [][OwnerNext]_vars

(***************************************************************************)
(* Properties of the resolver and installer.                               *)
(***************************************************************************)
Reaches == 1..Len(reached)
DownloadsOf(n) == {i \in 1..Len(downloads) : downloads[i].name = n}
Available(n) == Range(Published(reg, n))
Denied(n) == fault.kind = "denied" /\ fault.name = n

\* C1: every constraint with which processInstallation was invoked for a name
\* without aborting is satisfied by the version the resolved set holds for it.
C1_ConstraintsSatisfied ==
    \A i \in Reaches :
        (reached[i].ok /\ reached[i].name \in DOMAIN resolved)
            => satisfies(resolved[reached[i].name], reached[i].constraint)

C1_Witness ==
    /\ status = "done"
    /\ \E i, j \in Reaches :
        /\ i < j
        /\ reached[i].name = reached[j].name
        /\ reached[i].constraint # reached[j].constraint
        /\ reached[i].name \in DOMAIN resolved

JointlyUnsatisfiable(n, c1, c2) ==
    ~\E v \in Available(n) : satisfies(v, c1) /\ satisfies(v, c2)

ConflictReached ==
    \E i, j \in Reaches :
        /\ i < j
        /\ reached[i].name = reached[j].name
        /\ JointlyUnsatisfiable(reached[i].name, reached[i].constraint, reached[j].constraint)

\* C2: once two constraints reached on the same name are jointly unsatisfiable
\* by the available versions, the run is aborted with VERSION_CONFLICT at that
\* name, and nothing is downloaded or extracted from then on.
C2_NoConflictSilence ==
    /\ [](\A i, j \in Reaches :
            (/\ i < j
             /\ reached[i].name = reached[j].name
             /\ JointlyUnsatisfiable(reached[i].name, reached[i].constraint,
                                     reached[j].constraint))
                => (/\ status = "aborted"
                    /\ reason = "VERSION_CONFLICT"
                    /\ abortName = reached[i].name))
    /\ [][(ConflictReached /\ run' = run) => (downloads' = downloads /\ disk' = disk)]_vars

C2_Witness ==
    /\ ConflictReached
    /\ status = "aborted"
    /\ reason = "VERSION_CONFLICT"
    /\ downloads # <<>>


\* the exact version a request asks for: the one given, or the latest stable
Requested(v) ==
    IF req.spec # NoVersion THEN v = req.spec
    ELSE /\ ~prerelease(v)
         /\ \A w \in Available(req.name) : ~prerelease(w) => compare(w, v) <= 0

\* the assignments of one available version to each name of a set that contains
\* the requested library at the requested version and is closed under the
\* dependencies of the versions it picks, every constraint being satisfied
Solutions ==
    {S \in UNION {[D -> UNION {Available(n) : n \in Names}] : D \in SUBSET Names} :
        /\ req.name \in DOMAIN S
        /\ Requested(S[req.name])
        /\ \A n \in DOMAIN S :
            /\ S[n] \in Available(n)
            /\ \A k \in 1..Len(Dependencies(reg, n, S[n])) :
                LET d == Dependencies(reg, n, S[n])[k]
                IN d.name \in DOMAIN S /\ satisfies(S[d.name], d.constraint)}

DependsOn(S, a, b) ==
    \E k \in 1..Len(Dependencies(reg, a, S[a])) : Dependencies(reg, a, S[a])[k].name = b

OnCycle(S) ==
    {a \in DOMAIN S : \E b \in DOMAIN S \ {a} : DependsOn(S, a, b) /\ DependsOn(S, b, a)}

\* C3 as stated: a graph with a cycle A -> B -> A whose constraints are mutually
\* satisfiable installs successfully, each name of the cycle downloaded once.
C3_AsStated ==
    (/\ fault = NoFault
     /\ \E S \in Solutions : OnCycle(S) # {})
        => <>(/\ status = "done"
              /\ \E S \in Solutions :
                    /\ OnCycle(S) # {}
                    /\ \A n \in OnCycle(S) : Cardinality(DownloadsOf(n)) = 1)

\* C3 amended: every install run terminates, cycle or not; no name is downloaded
\* twice; a name is in the resolved set before its version record is fetched,
\* its archive downloaded or a sub-dependency visited; and with every read,
\* access check and download succeeding the run ends successfully with each
\* resolved name downloaded exactly once, unless a constraint reached matches
\* no available version or is not satisfied by the version already pinned.
C3_CycleTerminates ==
    /\ (status = "access") ~> Terminated
    /\ [](\A n \in Names : Cardinality(DownloadsOf(n)) <= 1)
    /\ [](\A k \in 1..Len(stack) :
            stack[k].pc \in {"info", "download", "deps"}
                => (stack[k].name \in DOMAIN resolved
                    /\ resolved[stack[k].name] = stack[k].ver))
    /\ []((status = "aborted" /\ fault = NoFault)
            => reason \in {"VERSION_CONFLICT", "NO_MATCH", "NOT_FOUND", "NO_STABLE"})
    /\ [](status = "done"
            => \A n \in DOMAIN resolved : Cardinality(DownloadsOf(n)) = 1)

C3_Witness ==
    /\ status = "done"
    /\ OnCycle(resolved) # {}
    /\ \A n \in OnCycle(resolved) : Cardinality(DownloadsOf(n)) = 1

C5_Idempotence ==
    (run > 1 /\ Terminated /\ order = prev.order)
        => (resolved = prev.resolved /\ disk = prev.disk)

C5_Witness ==
    /\ run > 1
    /\ status = "done"
    /\ order = prev.order
    /\ Cardinality(disk.files) > 1

\* C6: in one run a name is downloaded at most once, into
\* tpkm_installed_libs/<name>/<version> with the version the resolved set
\* records for it; a library reached from two parents is downloaded once.
C6_DownloadedOnce ==
    /\ \A i, j \in 1..Len(downloads) : downloads[i].name = downloads[j].name => i = j
    /\ \A i \in 1..Len(downloads) :
        /\ downloads[i].name \in DOMAIN resolved
        /\ downloads[i].version = resolved[downloads[i].name]
        /\ downloads[i].path = <<"tpkm_installed_libs", downloads[i].name,
                                 resolved[downloads[i].name]>>
    /\ \A i, j \in Reaches :
        (i < j /\ reached[i].name = reached[j].name /\ status = "done")
            => Cardinality(DownloadsOf(reached[i].name)) = 1

C6_Witness ==
    /\ status = "done"
    /\ reg = "diamond"
    /\ resolved = [n \in Names |-> IF n = "D" THEN V123 ELSE V100]
    /\ Cardinality(DownloadsOf("D")) = 1
    /\ Cardinality({i \in Reaches : reached[i].name = "D"}) = 2

NoStableVersion == \A v \in Available(req.name) : prerelease(v)

\* C7: without a version specifier the install picks the highest available
\* version that is no pre-release, and with no versions or only pre-releases it
\* aborts without downloading anything.
C7_LatestStable ==
    req.spec = NoVersion =>
        /\ status \in {"call", "installing", "done"} => versionString # NoVersion
        /\ versionString # NoVersion =>
            /\ versionString \in Available(req.name)
            /\ ~prerelease(versionString)
            /\ \A w \in Available(req.name) :
                  ~prerelease(w) => compare(w, versionString) <= 0
        /\ \A i \in DownloadsOf(req.name) : downloads[i].version = versionString
        /\ NoStableVersion =>
            /\ downloads = <<>>
            /\ status \in {"access", "latest", "aborted"}

C7_Witness ==
    /\ req = [name |-> "A", spec |-> NoVersion]
    /\ reg = "latest"
    /\ status = "done"
    /\ versionString = V110
    /\ V200b1 \in Available("A")

\* C8: with the caller's address known, a library the caller has no access to
\* never enters the resolved set and is never downloaded or extracted; the run
\* aborts at it, and what was extracted before stays on disk.
C8_AccessGate ==
    /\ [](callerKnown =>
            \A n \in Names : Denied(n) =>
                /\ n \notin DOMAIN resolved
                /\ DownloadsOf(n) = {}
                /\ \A path \in disk.dirs : path[2] # n
                /\ \A k \in 1..Len(stack) :
                      stack[k].name = n => stack[k].pc \in {"versions", "access"}
                /\ status = "done" => \A i \in Reaches : reached[i].name # n)
    /\ []((status = "aborted" /\ reason = "ACCESS_DENIED")
            => /\ Denied(abortName)
               /\ \A i \in 1..Len(downloads) :
                    <<downloads[i].path, <<"cid", downloads[i].name, downloads[i].version>>>>
                        \in disk.files)
    /\ [][(/\ status = "installing" /\ stack # <<>>
           /\ Top.pc = "access" /\ Denied(Top.name))
            => (/\ status' = "aborted" /\ reason' = "ACCESS_DENIED"
                /\ abortName' = Top.name /\ disk' = disk)]_vars

C8_Witness ==
    /\ callerKnown
    /\ status = "aborted"
    /\ reason = "ACCESS_DENIED"
    /\ abortName # req.name
    /\ downloads # <<>>
    /\ disk.files # {}


(***************************************************************************)
(* Properties of the access status of `info`.                              *)
(***************************************************************************)
StatusDerived == info.pc \in {"details", "end"} /\ ~(lib.known /\ lib.statusQueryFails)

NothingToReport ==
    /\ lib.known
    /\ ~lib.userHasLicense /\ ~lib.hasAccess
    /\ ~lib.isPrivate /\ ~lib.licenseRequired

ProfileComplete ==
    /\ cfg.activeNetwork = "main"
    /\ cfg.rpcUrl = "http://profile"
    /\ cfg.contractAddress = "0xPROFILE"

EnvComplete == cfg.RPC_URL = "http://env" /\ cfg.CONTRACT_ADDRESS = "0xENV"

ActiveIsProfile(file) ==
    file.activeNetwork = "null" \/ file.activeNetwork \in Keys(file.networks)

\* C11: after any sequence of config add, set-active and remove the saved store
\* has activeNetwork null or a key of networks; removing the active profile sets
\* activeNetwork to null; set-active on a name that is no key changes nothing.
C11_AsStated ==
    store.pc = "ready" =>
        /\ ActiveIsProfile(store.file)
        /\ (/\ store.last.cmd = "remove" /\ store.last.written
            /\ store.last.name = store.last.before.activeNetwork)
               => store.file.activeNetwork = "null"
        /\ (/\ store.last.cmd = "set-active"
            /\ store.last.name \notin Keys(store.last.before.networks))
               => store.file = store.last.before

\* C11 for names that are not inherited property names: the same three
\* statements hold as long as no command was given such a name.
C11_OwnNames ==
    [][(/\ store.pc = "ready"
        /\ ActiveIsProfile(store.file)
        /\ store'.last.name \notin Inherited)
          => /\ ActiveIsProfile(store'.file)
             /\ (store'.last.cmd = "remove" /\ store'.last.written
                 /\ store'.last.name = store.file.activeNetwork)
                   => store'.file.activeNetwork = "null"
             /\ (store'.last.cmd = "set-active"
                 /\ store'.last.name \notin Keys(store.file.networks))
                   => store'.file = store.file]_vars

C11_Witness ==
    /\ store.pc = "ready"
    /\ store.last.cmd = "set-active"
    /\ store.last.name \in Inherited
    /\ store.last.name \notin Keys(store.last.before.networks)
    /\ store.file.activeNetwork = store.last.name


(***************************************************************************)
(* Properties of publish.                                                  *)
(***************************************************************************)
\* C12: with an ownership mismatch or an unregistered library publish aborts
\* before archiving: no archive is created, nothing is uploaded, no
\* publishVersion transaction is submitted and no temp file exists afterwards.
C12_OwnershipAbort ==
    (pub.pc # "idle" /\ pub.env.owner # "signer") =>
        /\ pub.archives = 0
        /\ pub.uploads = 0
        /\ pub.submitted = 0
        /\ ~pub.tempExists
        /\ pub.pc \in {"wallet", "exited", "validate", "owner", "finally", "end"}
        /\ pub.pc \in {"exited", "finally", "end"} => pub.outcome = "failure"

C12_Witness ==
    /\ pub.pc = "end"
    /\ ValidationPasses(pub.env)
    /\ pub.env.owner \in {"other", "zero", "notFound"}
    /\ pub.env.archive = "ok"
    /\ pub.outcome = "failure"

PublishShouldSucceed(env) ==
    /\ ValidationPasses(env) /\ env.owner = "signer" /\ env.archive = "ok"
    /\ env.upload = "ok" /\ env.send = "accepted" /\ env.wait = "confirmed"

C14_AsStated ==
    /\ pub.outcome = "success" => pub.records = 1
    /\ pub.outcome = "failure" => pub.records = 0

\* C14 amended: success implies exactly one new record; failure implies zero
\* unless the transaction was sent and waiting for its confirmation failed for
\* another reason than a revert; at most one transaction is ever sent.
C14_PublishAtomicity ==
    pub.pc # "idle" =>
        /\ pub.outcome = "success" => pub.records = 1
        /\ (pub.outcome = "failure"
            /\ ~(pub.submitted = 1 /\ pub.env.wait = "lost")) => pub.records = 0
        /\ pub.submitted <= 1
        /\ pub.records <= pub.submitted

C14_Witness ==
    /\ pub.pc = "end"
    /\ pub.outcome = "success"
    /\ pub.records = 1

\* C19 as stated: a command that aborts ends the process with exit code 1, a
\* command that succeeds ends it with exit code 0.
C19_AsStated ==
    pub.pc \in {"end", "exited"} =>
        pub.exitCode = (IF pub.outcome = "success" THEN 0 ELSE 1)

\* what holds instead: exit code 1 only when the wallet could not be loaded
C19_ExitOnlyInWalletLoad ==
    pub.pc \in {"end", "exited"} =>
        pub.exitCode = (IF pub.env.wallet = "ok" THEN 0 ELSE 1)

C19_Witness ==
    /\ pub.pc = "end"
    /\ pub.env.wallet = "ok"
    /\ ValidationPasses(pub.env)
    /\ pub.env.owner = "other"
    /\ pub.outcome = "failure"
    /\ pub.exitCode = 0


(***************************************************************************)
(* Properties of purchase-license and set-license.                         *)
(***************************************************************************)
Purchasing == lic.pc # "idle" /\ lic.env.cmd = "purchase-license"

SettingLicense == lic.pc # "idle" /\ lic.env.cmd = "set-license"

\* C15: purchase-license submits a purchaseLibraryLicense transaction only when
\* the caller is not the owner, the library is not private, a license is
\* required, the caller holds none and the purchase was confirmed.
C15_PurchaseGuards ==
    Purchasing =>
        /\ Len(lic.txs) <= 1
        /\ lic.txs # <<>> =>
              /\ lic.txs[1].fn = "purchaseLibraryLicense"
              /\ ~lic.env.infoFails
              /\ ~lic.env.isOwner
              /\ ~lic.env.isPrivate
              /\ lic.env.licenseRequired
              /\ ~lic.env.hasUserLicense
              /\ lic.env.confirmPurchase

C15_Witness ==
    /\ Purchasing
    /\ lic.pc = "end" /\ lic.outcome = "success"
    /\ Len(lic.txs) = 1

\* C16: every purchaseLibraryLicense transaction carries at least the fee read
\* in the pre-check, exactly the fee when --amount is not given, and an amount
\* below the fee ends the command without a transaction.
C16_ValueCoversFee ==
    Purchasing =>
        /\ \A i \in 1..Len(lic.txs) :
              /\ lic.txs[i].value >= lic.env.licenseFee
              /\ lic.env.amount = NoAmount => lic.txs[i].value = lic.env.licenseFee
              /\ lic.env.amount # NoAmount =>
                    <<lic.txs[i].value>> = AmountToSend(lic.env.amount, lic.env.licenseFee)
        /\ lic.outcome = "belowFee" => lic.txs = <<>>

C16_Witness ==
    /\ Purchasing
    /\ Len(lic.txs) = 1
    /\ lic.env.amount = Amount("0.02 eth", <<"0.02", "eth">>)
    /\ lic.env.licenseFee = 10
    /\ lic.txs[1].value = 20

\* C17: set-license never submits setLibraryLicense with required = true for a
\* private library, never submits when the signer is not the owner, and a
\* fee > 0 with required = false is sent with a warning only.
C17_SetLicenseGuards ==
    SettingLicense =>
        /\ Len(lic.txs) <= 1
        /\ \A i \in 1..Len(lic.txs) :
              /\ lic.txs[i].fn = "setLibraryLicense"
              /\ lic.env.isOwner
              /\ ~(lic.env.isPrivate /\ lic.txs[i].required)
              /\ lic.txs[i].required = IsRequired(lic.env.required)
        /\ (/\ lic.pc \in {"send", "wait", "end"}
            /\ lic.outcome \notin {"error", "invalidAmount", "private"}
            /\ lic.value > 0 /\ ~lic.isRequired)
              => lic.warned
        /\ (/\ lic.pc = "wait"
            /\ lic.value > 0 /\ ~lic.isRequired)
              => (lic.txs # <<>> /\ lic.txs[1].fee = lic.value /\ ~lic.txs[1].required)

C17_Witness ==
    /\ SettingLicense
    /\ lic.pc = "end" /\ lic.outcome = "success"
    /\ Len(lic.txs) = 1
    /\ lic.txs[1].fee > 0 /\ ~lic.txs[1].required
    /\ lic.warned


(***************************************************************************)
(* Properties of the error translator.                                     *)
(***************************************************************************)
\* C18: an error whose revert reason contains a revert string of the table is
\* translated to the message of that string, whatever its code and whatever
\* nested provider error it carries.
C18_AsStated ==
    err.pc = "returned" => err.returned = Translated("table", err.key, NoText)

\* the codes answered before the revert reason is looked at
Masked(error) == CodeMessage(InternalError(error).code) # ""

\* the revert string is in a field of the object the reason is extracted from
ReasonRead(e) ==
    \/ e.location = "reason" /\ InternalError(e.error).reason.defined
    \/ e.location = "error.reason" /\ InternalError(e.error).reason.defined
    \/ e.location = "message"

\* C18 where it holds: the revert string is translated to its message when the
\* error's code is none of INSUFFICIENT_FUNDS, -32000, -32003, NONCE_EXPIRED,
\* REPLACEMENT_UNDERPRICED and the string is in the field that is read.
C18_Unmasked ==
    (err.pc = "returned" /\ ~Masked(err.error) /\ ReasonRead(err)) =>
        err.returned = Translated("table", err.key, NoText)

C18_Witness ==
    /\ err.pc = "returned"
    /\ err.location = "error.message"
    /\ err.error.error.code = "-32000"
    /\ err.returned.kind = "insufficientFunds"


(***************************************************************************)
(* Properties of the wallet commands.                                      *)
(***************************************************************************)
\* C20: the keystore file changes only in wallet create and wallet import, and
\* when it existed before only after the user confirmed the overwrite.
C20_KeystorePreserved ==
    [][wal'.files[keystorePath] # wal.files[keystorePath] =>
          /\ wal'.last.cmd \in {"wallet create", "wallet import"}
          /\ wal.files[keystorePath] # NoFile =>
                (wal'.last.asked /\ wal'.last.overwrite)]_vars

C20_Witness ==
    /\ wal.pc = "ready"
    /\ wal.last.cmd = "wallet import"
    /\ wal.last.before = Keystore("r1", "pw2")
    /\ wal.last.asked
    /\ ~wal.last.overwrite
    /\ wal.files[keystorePath] = wal.last.before


(***************************************************************************)
(* Further properties of the resolver and installer.                       *)
(***************************************************************************)
BadRecord(n) == fault.name = n /\ fault.kind \in {"emptyHash", "blankHash", "zeroHash"}

\* C23: when the version record fetched for the chosen version has an ipfsHash
\* that is empty, blank or starts with 0x0000, the name is removed from the
\* resolved set, no target directory is created and nothing is downloaded for
\* it, no sub-dependency of it is visited, and the install aborts.
C23_BadRecordRollback ==
    /\ [](\A n \in Names : BadRecord(n) =>
            /\ DownloadsOf(n) = {}
            /\ \A path \in disk.dirs : path[2] # n
            /\ \A k \in 1..Len(stack) :
                  stack[k].name = n => stack[k].pc \in {"versions", "access", "info"}
            /\ status = "done" => \A i \in Reaches : reached[i].name # n)
    /\ []((status = "aborted" /\ reason = "BAD_RECORD")
            => (BadRecord(abortName) /\ abortName \notin DOMAIN resolved))
    /\ [][(/\ status = "installing" /\ stack # <<>>
           /\ Top.pc = "info" /\ BadRecord(Top.name))
            => (/\ status' = "aborted" /\ reason' = "BAD_RECORD"
                /\ abortName' = Top.name
                /\ Top.name \in DOMAIN resolved
                /\ Top.name \notin DOMAIN resolved'
                /\ downloads' = downloads /\ disk' = disk
                /\ reached' = reached)]_vars

C23_Witness ==
    /\ status = "aborted"
    /\ reason = "BAD_RECORD"
    /\ fault.kind = "zeroHash"
    /\ abortName # req.name
    /\ abortName \notin DOMAIN resolved
    /\ downloads # <<>>
    /\ Dependencies(reg, abortName, V100) # <<>>

\* C28: when install finishes successfully the resolved set is closed under
\* the dependencies of the versions it holds, every constraint being satisfied
\* by the version held, and every name in it was downloaded and extracted in
\* this run.
C28_DependencyClosed ==
    status = "done" =>
        \A n \in DOMAIN resolved :
            /\ \A k \in 1..Len(Dependencies(reg, n, resolved[n])) :
                  LET d == Dependencies(reg, n, resolved[n])[k]
                  IN /\ d.name \in DOMAIN resolved
                     /\ satisfies(resolved[d.name], d.constraint)
            /\ \E i \in DownloadsOf(n) :
                  /\ downloads[i].ok
                  /\ downloads[i].version = resolved[n]
                  /\ <<downloads[i].path, <<"cid", n, resolved[n]>>>> \in disk.files

C28_Witness ==
    /\ status = "done"
    /\ run = 1
    /\ reg = "diamond"
    /\ DOMAIN resolved = Names
    /\ Len(downloads) = 4

FirstReach(n) ==
    CHOOSE i \in Reaches :
        reached[i].name = n /\ \A j \in Reaches : reached[j].name = n => i <= j

\* the version record of n was accepted: its download was started
Accepted(n) ==
    \/ DownloadsOf(n) # {}
    \/ \E k \in 1..Len(stack) : stack[k].name = n /\ stack[k].pc \in {"download", "deps"}

FramesOf(stk, n) == {k \in 1..Len(stk) : stk[k].name = n}

\* C29: the version recorded for a name is maxSatisfying(available, c1) for the
\* first constraint c1 under which the name is reached; once its version record
\* was accepted the entry is never changed or removed in the run; a later
\* constraint on the name starts no new version fetch or download and is
\* either satisfied by the pinned version or aborts the install.
C29_FirstComePinning ==
    /\ [](\A n \in DOMAIN resolved :
            /\ \E i \in Reaches : reached[i].name = n
            /\ resolved[n] = maxSatisfying(getVersionNumbers(n),
                                           reached[FirstReach(n)].constraint))
    /\ [][\A n \in DOMAIN resolved :
            (Accepted(n) /\ run' = run)
                => (n \in DOMAIN resolved' /\ resolved'[n] = resolved[n])]_vars
    /\ [][\A n \in DOMAIN resolved :
            (/\ run' = run
             /\ Len(reached') = Len(reached) + 1
             /\ reached'[Len(reached')].name = n)
                => (/\ FramesOf(stack', n) \subseteq FramesOf(stack, n)
                    /\ downloads' = downloads
                    /\ resolved' = resolved
                    /\ reached'[Len(reached')].ok
                          = satisfies(resolved[n], reached'[Len(reached')].constraint)
                    /\ ~reached'[Len(reached')].ok
                          => (status' = "aborted" /\ reason' = "VERSION_CONFLICT"))]_vars

\* a later constraint aborted the install although an available version
\* satisfies every constraint reached on the name
C29_Witness ==
    /\ status = "aborted"
    /\ reason = "VERSION_CONFLICT"
    /\ abortName \in DOMAIN resolved
    /\ Accepted(abortName)
    /\ \E v \in Available(abortName) :
          /\ v # resolved[abortName]
          /\ \A i \in Reaches :
                reached[i].name = abortName => satisfies(v, reached[i].constraint)

(***************************************************************************)
(* Further properties of `info`.                                           *)
(***************************************************************************)
\* C24 as stated: whenever the caller's address equals the library owner the
\* access status reported is OWNER, whatever hasUserLicense and hasAccess
\* return for that caller.
C24_AsStated ==
    (StatusDerived /\ lib.known /\ lib.isOwner) => info.shown = {"OWNER"}

\* what holds instead: OWNER is reported exactly when the caller is the owner,
\* holds no license and hasAccess returned true
C24_OwnerAfterLicense ==
    (StatusDerived /\ lib.known) =>
        ("OWNER" \in info.shown
            <=> (lib.isOwner /\ ~lib.userHasLicense /\ lib.hasAccess))

C24_Witness ==
    /\ info.pc = "end"
    /\ lib.known /\ lib.isOwner
    /\ lib.userHasLicense /\ lib.hasAccess
    /\ ~lib.statusQueryFails
    /\ info.shown = {"PUBLIC_LICENSED_OWNED"}

\* C30: info name@version fetches and displays the version record only if a
\* wallet address is available and hasAccess returned true for it, or no wallet
\* address is available and the library is neither private nor
\* license-required; not when the access query fails.
C30_VersionRecordGate ==
    /\ info.pc = "end" =>
          (info.versionFetched <=>
              /\ lib.querySpecificVersion
              /\ \/ lib.known /\ ~lib.statusQueryFails /\ lib.hasAccess
                 \/ ~lib.known /\ ~lib.isPrivate /\ ~lib.licenseRequired)
    /\ info.pc # "end" => ~info.versionFetched

C30_Witness ==
    /\ info.pc = "end"
    /\ lib.querySpecificVersion
    /\ ~lib.known
    /\ lib.licenseRequired /\ ~lib.isPrivate
    /\ ~info.versionFetched

(***************************************************************************)
(* Further properties of the network configuration.                        *)
(***************************************************************************)
ConfigResolved == net.pc \in {"connect", "ipfs", "ready", "exit"}

\* the stored activeNetwork is set, but names no profile or a profile without
\* rpcUrl or a valid contractAddress
ActiveUnusable == cfg.activeNetwork # "null" /\ ~ProfileComplete

\* C27 as stated: whenever the stored activeNetwork is non-null but unusable,
\* initialisation emits a warning and falls through to the environment
\* variables; the broken profile by itself is never fatal.
C27_AsStated ==
    (ConfigResolved /\ ActiveUnusable) =>
        /\ net.warned
        /\ EnvComplete =>
              /\ net.source = "env"
              /\ net.rpcToUse = cfg.RPC_URL
              /\ net.contractAddrToUse = cfg.CONTRACT_ADDRESS
              /\ net.exit # "CONFIG_MISSING"

\* what holds instead: the fall-through always happens, the warning only when
\* the active network names a profile
C27_FallsThrough ==
    (ConfigResolved /\ ActiveUnusable) =>
        /\ net.warned <=> ActiveProfileExists(cfg)
        /\ EnvComplete =>
              /\ net.source = "env"
              /\ net.rpcToUse = cfg.RPC_URL
              /\ net.contractAddrToUse = cfg.CONTRACT_ADDRESS
              /\ net.exit # "CONFIG_MISSING"

C27_Witness ==
    /\ net.pc = "ready"
    /\ cfg.activeNetwork = "gone"
    /\ EnvComplete
    /\ net.source = "env"
    /\ ~net.warned

(***************************************************************************)
(* Further properties of the network profile store.                        *)
(***************************************************************************)
WellFormedProfile(profile) ==
    HasRpcScheme(profile.rpcUrl) /\ isAddress(profile.contractAddress)

\* C21 as stated: config add stores a profile only if the contract value is a
\* well-formed address and the RPC URL has a scheme in {http, https, ws, wss},
\* from flags or from prompts; otherwise the store is left unchanged.
C21_AsStated ==
    store.pc = "ready" =>
        \A n \in Keys(store.file.networks) : WellFormedProfile(store.file.networks[n])

\* what holds instead: every stored profile has a well-formed address in
\* checksum form and a non-empty RPC URL
C21_AddressChecked ==
    store.pc = "ready" =>
        \A n \in Keys(store.file.networks) :
            /\ isAddress(store.file.networks[n].contractAddress)
            /\ getAddress(store.file.networks[n].contractAddress)
                  = store.file.networks[n].contractAddress
            /\ store.file.networks[n].rpcUrl # NoUrl

C21_Witness ==
    /\ store.pc = "ready"
    /\ store.last.cmd = "add"
    /\ store.last.written
    /\ store.last.name \in Keys(store.file.networks)
    /\ store.last.name \notin Keys(store.last.before.networks)
    /\ store.file.networks[store.last.name].rpcUrl = <<"ftp", "node">>

(***************************************************************************)
(* Further properties of publish.                                          *)
(***************************************************************************)
\* [a-z0-9]+ at the start of a name: the rest after it, or <<"A">> when the
\* name does not start with one
RECURSIVE SkipAlnum(_)
SkipAlnum(name) ==
    IF name # <<>> /\ Head(name) = "a" THEN SkipAlnum(Tail(name)) ELSE name

\* the LibraryName rules, /^[a-z0-9]+(?:[-_.]?[a-z0-9]+)*$/
RECURSIVE IsLibraryName(_)
IsLibraryName(name) ==
    /\ name # <<>>
    /\ Head(name) = "a"
    /\ LET rest == SkipAlnum(name)
       IN \/ rest = <<>>
          \/ Head(rest) = "-" /\ IsLibraryName(Tail(rest))

PastValidation ==
    \/ pub.pc \in {"owner", "archive", "upload", "tx", "wait"}
    \/ pub.pc \in {"finally", "end"} /\ pub.outcome = "success"
    \/ pub.archives + pub.uploads + pub.submitted > 0

\* C26 as stated: publish aborts before the ownership check, archiving, upload
\* and transaction whenever the name in lib.config.json does not satisfy the
\* LibraryName rules or the effective version is not a valid SemVer.
C26_AsStated ==
    (pub.pc # "idle" /\ PastValidation) =>
        (IsLibraryName(pub.env.name) /\ valid(EffectiveVersion(pub.env)))

\* what holds instead: the version is validated, the name only for presence
C26_VersionValidated ==
    (pub.pc # "idle" /\ PastValidation) =>
        (pub.env.name # NoName /\ valid(EffectiveVersion(pub.env)))

C26_Witness ==
    /\ pub.pc = "end"
    /\ pub.outcome = "success"
    /\ pub.records = 1
    /\ pub.env.name = <<"A", "-", "a">>
    /\ ~IsLibraryName(pub.env.name)

(***************************************************************************)
(* Properties of delete, authorize and revoke.                             *)
(***************************************************************************)
OwnerRunning(cmd) == own.pc # "idle" /\ own.env.cmd = cmd

\* C22: delete submits a deleteLibrary transaction only after, in this order,
\* the signer was verified to be the owner, the library to have no published
\* versions, the user typed 'yes' and then the exact library name; if a step
\* fails or is declined no transaction is submitted.
C22_DeleteGuards ==
    OwnerRunning("delete") =>
        /\ Len(own.txs) <= 1
        /\ own.txs # <<>> =>
              /\ own.txs = <<"deleteLibrary">>
              /\ own.log = <<"owner", "versions", "yes", "name">>
              /\ own.env.ownerAddressOnChain = SignerAddress
              /\ ~own.env.versionsFail /\ own.env.versions = 0
              /\ own.env.confirmYes \in {"yes", "YES"}
              /\ own.env.confirmName = LibraryArgument
        /\ (own.pc = "end" /\ own.log # <<"owner", "versions", "yes", "name">>)
              => own.txs = <<>>

C22_Witness ==
    /\ OwnerRunning("delete")
    /\ own.pc = "end"
    /\ own.outcome = "success"
    /\ own.txs = <<"deleteLibrary">>
    /\ own.env.confirmYes = "YES"

\* C25: authorize submits authorizeUser only when the signer is the owner, the
\* library is private, the target is not the owner and hasAccess(name, target)
\* is false; revoke submits revokeAuthorization only when the signer is the
\* owner, the library is private, the target is not the owner, hasAccess is
\* true and the user confirmed.  In every other case no transaction is sent.
C25_AclGuards ==
    (OwnerRunning("authorize") \/ OwnerRunning("revoke")) =>
        /\ Len(own.txs) <= 1
        /\ own.txs # <<>> =>
              /\ own.env.ownerAddressOnChain = SignerAddress
              /\ own.env.isPrivate
              /\ own.env.userAddress \notin {"0xowner", "0xOWNER"}
              /\ ~own.env.accessFails
              /\ own.env.cmd = "authorize" =>
                    /\ own.txs = <<"authorizeUser">>
                    /\ ~own.env.currentlyAuthorized
              /\ own.env.cmd = "revoke" =>
                    /\ own.txs = <<"revokeAuthorization">>
                    /\ own.env.currentlyAuthorized
                    /\ own.env.confirmRevoke

C25_Witness ==
    /\ OwnerRunning("revoke")
    /\ own.pc = "end"
    /\ own.outcome = "cancelled"
    /\ own.env.currentlyAuthorized
    /\ own.log = <<"address", "owner", "private", "notOwnerTarget", "access">>
    /\ own.txs = <<>>

====
